---------------------------- MODULE Spec2Model ----------------------------
(***************************************************************************)
(* Authorization and audit layer of the admin BFF.                         *)
(*                                                                         *)
(*   - Permission store and access evaluator                               *)
(*       (services/user-registry.ts, UserRegistryService)                  *)
(*   - Module gate (middleware/auth-enhanced.ts, requireModuleAccess)      *)
(*   - Activity logging middleware (middleware/activity-logging.ts)        *)
(*   - ActivityLogger: isCriticalAction, sanitizeLogData, logSync,         *)
(*       logAsync; LogQueue: enqueue, processQueue                         *)
(*       (services/activity-logger.ts, services/log-queue.ts)              *)
(*   - Sanitizer (utils/sanitizer.ts)                                      *)
(*                                                                         *)
(* JavaScript strings that the code inspects character by character        *)
(* (object keys, URL paths) are sequences of one-character strings, so     *)
(* that toLowerCase, replace and includes are computed, not assumed.       *)
(* Strings that the code only compares for equality (HTTP methods, level   *)
(* names, module names) are TLA+ strings.                                  *)
(***************************************************************************)
EXTENDS Integers, Sequences, FiniteSets, TLC

VARIABLES
    users,        \* table users: the ids of the rows present
    perms,        \* table user_permissions: a set of rows
    lastCheck,    \* the last hasModuleAccess call: its arguments and result
    crit,         \* the last isCriticalAction call: its arguments and result
    req,          \* per request: position in the middleware chain and response
    audit,        \* per request: which of logSync / logAsync the middleware called
    pendingSync,  \* logSync calls suspended on their INSERT
    queue,        \* LogQueue.queue
    isProcessing, \* LogQueue.isProcessing
    batch,        \* the part of the current drain's batch not yet attempted
    logs,         \* table admin_user_logs, in insertion order
    lost,         \* rows given up: a failed logSync INSERT, a queue item dropped
    san,          \* the last sanitizer call: its input and its output
    calls,        \* per setUserPermission call: position and arguments
    flush,        \* the LogQueue.flush call: position and elapsed time
    now,          \* the clock, in days
    cleanup,      \* the deleteOldLogs call: position, cutoff and result
    attempts,     \* per queued entry: the write attempts made for it so far
    export,       \* the export request: its filters' match count and its answer
    answers,      \* per permission route call: the status answered (0: none yet)
    proc,         \* the server process: whether it has exited, and on what
    sched         \* the cleanup job's timers: position, due day, runs, errors logged

accessVars == <<users, perms, lastCheck>>
auditVars  == <<req, audit, pendingSync, queue, isProcessing, batch, logs, lost>>
extVars    == <<export, answers, proc, sched>>
auxVars    == <<san, calls, flush, now, cleanup, attempts, extVars>>
vars       == <<users, perms, lastCheck, crit, req, audit, pendingSync, queue,
                isProcessing, batch, logs, lost, san, calls, flush, now,
                cleanup, attempts, export, answers,
                proc, sched>>

-----------------------------------------------------------------------------
(* JavaScript string primitives over sequences of characters.              *)

\* String.prototype.toLowerCase, on the letters that occur in the model.
ToLowerChar(c) ==
    CASE c = "A" -> "a" [] c = "I" -> "i" [] c = "K" -> "k" [] c = "L" -> "l"
      [] c = "P" -> "p" [] c = "T" -> "t" [] c = "W" -> "w" [] OTHER -> c

ToLowerCase(s) == [i \in 1..Len(s) |-> ToLowerChar(s[i])]

\* s.replace(/[_-]/g, '')
StripSeparators(s) == SelectSeq(s, LAMBDA c : c \notin {"_", "-"})

\* s.includes(t)
Includes(s, t) ==
    \E i \in 0..(Len(s) - Len(t)) : SubSeq(s, i + 1, i + Len(t)) = t

\* Array.prototype.indexOf: zero-based position of the first match, or -1.
IndexOf(arr, x) ==
    IF \E i \in 1..Len(arr) : arr[i] = x
    THEN (CHOOSE i \in 1..Len(arr) :
             arr[i] = x /\ \A j \in 1..(i - 1) : arr[j] # x) - 1
    ELSE -1

-----------------------------------------------------------------------------
(* Users, modules, levels, the permission store.                           *)

UserIds == {1, 2}
\* users.role: user 1 is a super admin, user 2 a viewer.
RoleOf(u) == IF u = 1 THEN "admin" ELSE "viewer"

Modules == {"finance", "user-mgmt", "ai-agents"}

\* user_permissions.access_level CHECK (access_level IN ('read','write','admin'))
Levels == {"read", "write", "admin"}
\* A level string outside the scale, as a caller could pass for requiredLevel.
UnknownLevel == "owner"
LevelStrings == Levels \cup {UnknownLevel}

NoRow == [none |-> TRUE]

PermissionRows ==
    [user_id : UserIds, module : Modules, access_level : Levels,
     granted_by : UserIds]

\* SELECT * FROM user_permissions WHERE user_id = $1 AND module = $2  (db.get)
SelectPermission(store, userId, module) ==
    IF \E p \in store : p.user_id = userId /\ p.module = module
    THEN CHOOSE p \in store : p.user_id = userId /\ p.module = module
    ELSE NoRow

\* A plain INSERT that a missing uniqueness constraint would let through.
UpsertPermission_insertOnly(store, userId, module, accessLevel, grantedBy) ==
    store \cup {[user_id |-> userId, module |-> module,
                 access_level |-> accessLevel, granted_by |-> grantedBy]}

\* INSERT ... ON CONFLICT(user_id, module) DO UPDATE SET access_level, granted_by
UpsertPermission(store, userId, module, accessLevel, grantedBy) ==
    {p \in store : ~(p.user_id = userId /\ p.module = module)}
        \cup {[user_id |-> userId, module |-> module,
               access_level |-> accessLevel, granted_by |-> grantedBy]}

\* A DELETE that spares rows of the highest level.
DeletePermission_keepAdmin(store, userId, module) ==
    {p \in store : ~(p.user_id = userId /\ p.module = module)
                       \/ p.access_level = "admin"}

\* DELETE FROM user_permissions WHERE user_id = $1 AND module = $2
DeletePermission(store, userId, module) ==
    {p \in store : ~(p.user_id = userId /\ p.module = module)}

accessLevels == <<"read", "write", "admin">>

\* An evaluator whose catch block lets the caller through.
hasModuleAccess_failOpen(store, userId, module, requiredLevel, dbError) ==
    IF dbError THEN TRUE
    ELSE LET permission == SelectPermission(store, userId, module) IN
         IF permission = NoRow THEN FALSE
         ELSE IndexOf(accessLevels, permission.access_level)
                  >= IndexOf(accessLevels, requiredLevel)

\* A hierarchy check that forgets equality: a plausible slip of the comparison.
hasModuleAccess_strict(store, userId, module, requiredLevel, dbError) ==
    IF dbError THEN FALSE
    ELSE LET permission == SelectPermission(store, userId, module) IN
         IF permission = NoRow THEN FALSE
         ELSE IndexOf(accessLevels, permission.access_level)
                  > IndexOf(accessLevels, requiredLevel)

\* UserRegistryService.hasModuleAccess.  dbError: the SELECT rejects, the
\* catch block returns false.
hasModuleAccess(store, userId, module, requiredLevel, dbError) ==
    IF dbError THEN FALSE
    ELSE LET permission == SelectPermission(store, userId, module) IN
         IF permission = NoRow THEN FALSE
         ELSE LET userLevel == IndexOf(accessLevels, permission.access_level)
                  requiredLevelIndex == IndexOf(accessLevels, requiredLevel)
              IN  userLevel >= requiredLevelIndex

NoCheck == [called |-> FALSE]

NoCrit == [called |-> FALSE]

-----------------------------------------------------------------------------
(* The access evaluator, applied to the stores that grants and revokes     *)
(* produce.                                                                *)

\* The upsert statement of setUserPermission.  The foreign keys on user_id
\* and granted_by need both users to exist.
StoreGrant(userId, module, accessLevel, grantedBy) ==
    /\ userId \in users
    /\ grantedBy \in users
    /\ perms' = UpsertPermission(perms, userId, module, accessLevel, grantedBy)
    /\ UNCHANGED <<users, lastCheck, crit, auxVars>>
    /\ UNCHANGED auditVars

\* The DELETE statement of removeUserPermission.
StoreRevoke(userId, module) ==
    /\ perms' = DeletePermission(perms, userId, module)
    /\ UNCHANGED <<users, lastCheck, crit, auxVars>>
    /\ UNCHANGED auditVars

\* A call of hasModuleAccess(userId, module, requiredLevel).
CheckAccess(userId, module, requiredLevel, dbError) ==
    /\ lastCheck' =
          [called |-> TRUE, userId |-> userId, module |-> module,
           requiredLevel |-> requiredLevel, dbError |-> dbError,
           stored |-> LET p == SelectPermission(perms, userId, module)
                      IN  IF p = NoRow THEN "none" ELSE p.access_level,
           result |-> hasModuleAccess(perms, userId, module, requiredLevel,
                                      dbError)]
    /\ UNCHANGED <<users, perms, crit, auxVars>>
    /\ UNCHANGED auditVars

-----------------------------------------------------------------------------
(* Dispatch policy: ActivityLogger.isCriticalAction.                       *)

Methods == {"GET", "POST", "PUT", "PATCH", "DELETE", "HEAD"}

Seg_auth        == <<"a", "u", "t", "h">>
Seg_authors     == <<"a", "u", "t", "h", "o", "r", "s">>
Seg_users       == <<"u", "s", "e", "r", "s">>
Seg_permissions == <<"p", "e", "r", "m", "i", "s", "s", "i", "o", "n", "s">>
Seg_finance     == <<"f", "i", "n", "a", "n", "c", "e">>
Seg_two         == <<"2">>
Seg_seven       == <<"7">>
Seg_api         == <<"a", "p", "i">>
Seg_admin       == <<"a", "d", "m", "i", "n">>
Seg_aiagents    == <<"a", "i", "-", "a", "g", "e", "n", "t", "s">>
Seg_collections == <<"c", "o", "l", "l", "e", "c", "t", "i", "o", "n", "s">>

Slash == <<"/">>

\* The URL path with the given segments: "/" seg1 "/" seg2 ...
RECURSIVE PathOf(_)
PathOf(segs) ==
    IF segs = <<>> THEN <<>>
    ELSE Slash \o Head(segs) \o PathOf(Tail(segs))

\* ActivityLogger.isCriticalAction(method, path)
isCriticalAction(method, path) ==
    \/ Includes(path, Slash \o Seg_auth \o Slash)         \* path.includes('/auth/')
    \/ method = "DELETE"
    \/ Includes(path, Slash \o Seg_permissions)           \* '/permissions'
    \/ (method \in {"POST", "PUT", "PATCH"}
          /\ Includes(path, Slash \o Seg_users))          \* '/users'

\* A call of isCriticalAction on the path made of the given segments.
Classify(method, segs) ==
    /\ crit' = [called |-> TRUE, method |-> method, segs |-> segs,
                result |-> isCriticalAction(method, PathOf(segs))]
    /\ UNCHANGED <<users, perms, lastCheck, auxVars>>
    /\ UNCHANGED auditVars

-----------------------------------------------------------------------------
(* Sanitizer (utils/sanitizer.ts) over value trees.  A value is a record   *)
(* [t, v]: t = "obj" with v a sequence of <<key, value>> entries, t =      *)
(* "arr" with v a sequence of values, t = "str" with v a string, and       *)
(* t = "null" / "undef".                                                    *)

Undefined == [t |-> "undef", v |-> <<>>]
Null      == [t |-> "null", v |-> <<>>]
Str(x)    == [t |-> "str", v |-> x]
Obj(es)   == [t |-> "obj", v |-> es]
Arr(xs)   == [t |-> "arr", v |-> xs]

REDACTED == Str("[REDACTED]")

\* JavaScript truthiness of a value (no empty strings occur in the model).
Truthy(x) == x.t \notin {"undef", "null"}
IsObject(x) == x.t \in {"obj", "arr"}      \* typeof x === 'object', x non-null

SENSITIVE_FIELDS ==
    << <<"p", "a", "s", "s", "w", "o", "r", "d">>,
       <<"t", "o", "k", "e", "n">>,
       <<"s", "e", "c", "r", "e", "t">>,
       <<"a", "p", "i", "k", "e", "y">>,
       <<"a", "p", "i", "_", "k", "e", "y">>,
       <<"c", "r", "e", "d", "e", "n", "t", "i", "a", "l">>,
       <<"c", "r", "e", "d", "e", "n", "t", "i", "a", "l", "s">>,
       <<"a", "u", "t", "h", "o", "r", "i", "z", "a", "t", "i", "o", "n">>,
       <<"a", "u", "t", "h">>,
       <<"a", "c", "c", "e", "s", "s", "t", "o", "k", "e", "n">>,
       <<"a", "c", "c", "e", "s", "s", "_", "t", "o", "k", "e", "n">>,
       <<"r", "e", "f", "r", "e", "s", "h", "t", "o", "k", "e", "n">>,
       <<"r", "e", "f", "r", "e", "s", "h", "_", "t", "o", "k", "e", "n">>,
       <<"p", "r", "i", "v", "a", "t", "e", "k", "e", "y">>,
       <<"p", "r", "i", "v", "a", "t", "e", "_", "k", "e", "y">> >>

\* const keyLower = key.toLowerCase().replace(/[_-]/g, '')
KeyLower(key) == StripSeparators(ToLowerCase(key))

\* SENSITIVE_FIELDS.some(f => keyLower.includes(f) || f.includes(keyLower))
IsSensitive(key) ==
    \E i \in 1..Len(SENSITIVE_FIELDS) :
        \/ Includes(KeyLower(key), SENSITIVE_FIELDS[i])
        \/ Includes(SENSITIVE_FIELDS[i], KeyLower(key))

\* sanitizePayload(data)
RECURSIVE sanitizePayload(_)

\* A sanitizer that returns arrays as they are.
sanitizePayload_arraysAsIs(data) ==
    IF data.t \in {"null", "undef"} THEN data
    ELSE IF data.t # "obj" THEN data
    ELSE Obj([i \in 1..Len(data.v) |->
                LET key   == data.v[i][1]
                    value == data.v[i][2]
                IN  IF IsSensitive(key) THEN <<key, REDACTED>>
                    ELSE IF Truthy(value) /\ IsObject(value)
                    THEN <<key, sanitizePayload(value)>>
                    ELSE <<key, value>>])

sanitizePayload(data) ==
    IF data.t \in {"null", "undef"} THEN data
    ELSE IF ~IsObject(data) THEN data
    ELSE IF data.t = "arr"
    THEN Arr([i \in 1..Len(data.v) |-> sanitizePayload(data.v[i])])
    ELSE Obj([i \in 1..Len(data.v) |->
                LET key   == data.v[i][1]
                    value == data.v[i][2]
                IN  IF IsSensitive(key) THEN <<key, REDACTED>>
                    ELSE IF Truthy(value) /\ IsObject(value)
                    THEN <<key, sanitizePayload(value)>>
                    ELSE <<key, value>>])

\* removeCircularReferences(data).  The entries built here hold values that
\* come from JSON.parse (req.body) or from fresh object literals: trees, in
\* which no reference repeats, so detect() never meets a seen object and
\* rebuilds the value node by node.
RECURSIVE removeCircularReferences(_)
removeCircularReferences(data) ==
    IF data.t = "arr"
    THEN Arr([i \in 1..Len(data.v) |-> removeCircularReferences(data.v[i])])
    ELSE IF data.t = "obj"
    THEN Obj([i \in 1..Len(data.v) |->
                <<data.v[i][1], removeCircularReferences(data.v[i][2])>>])
    ELSE data

\* removeCircularReferences(data) over object graphs.  heap maps an object
\* identity to its node; a node's slots hold primitives or references
\* Ref(id), so that an object can hold itself, directly or through others.
\* detect(obj) is computed with the WeakSet seen threaded through the
\* traversal in the order of Array.map / Object.entries, and with the
\* number of nested detect frames still available (fuel): a call made with
\* none left is the stack overflow, reported as ok = FALSE.
Ref(id) == [t |-> "ref", v |-> id]
CIRCULAR == Str("[Circular Reference]")

RECURSIVE detect(_, _, _, _)
RECURSIVE detectSlots(_, _, _, _, _)

\* A detect that never records the objects it has visited.
detect_noSeen(heap, obj, seen, fuel) ==
    IF fuel = 0 THEN [val |-> Undefined, seen |-> seen, ok |-> FALSE]
    ELSE IF obj.t # "ref" THEN [val |-> obj, seen |-> seen, ok |-> TRUE]
    ELSE IF obj.v \in seen THEN [val |-> CIRCULAR, seen |-> seen, ok |-> TRUE]
    ELSE LET r == detectSlots(heap, heap[obj.v], 1, seen, fuel - 1)
         IN  [val  |-> [t |-> heap[obj.v].t, v |-> r.vals],
              seen |-> r.seen, ok |-> r.ok]

detect(heap, obj, seen, fuel) ==
    IF fuel = 0 THEN [val |-> Undefined, seen |-> seen, ok |-> FALSE]
    ELSE IF obj.t # "ref" THEN [val |-> obj, seen |-> seen, ok |-> TRUE]
    ELSE IF obj.v \in seen THEN [val |-> CIRCULAR, seen |-> seen, ok |-> TRUE]
    ELSE LET r == detectSlots(heap, heap[obj.v], 1, seen \cup {obj.v}, fuel - 1)
         IN  [val  |-> [t |-> heap[obj.v].t, v |-> r.vals],
              seen |-> r.seen, ok |-> r.ok]

\* obj.map(item => detect(item)) and the for-of over Object.entries(obj),
\* from slot i on.
detectSlots(heap, node, i, seen, fuel) ==
    IF i > Len(node.v) THEN [vals |-> <<>>, seen |-> seen, ok |-> TRUE]
    ELSE LET item == IF node.t = "arr" THEN node.v[i] ELSE node.v[i][2]
             d    == detect(heap, item, seen, fuel)
         IN  IF ~d.ok THEN [vals |-> <<>>, seen |-> d.seen, ok |-> FALSE]
             ELSE LET rest == detectSlots(heap, node, i + 1, d.seen, fuel)
                      slot == IF node.t = "arr" THEN d.val
                              ELSE <<node.v[i][1], d.val>>
                  IN  [vals |-> <<slot>> \o rest.vals,
                       seen |-> rest.seen, ok |-> rest.ok]

PayloadFields == {"request_payload", "before_state", "after_state"}

\* A sanitizeLogData whose catch block returns the entry without its
\* payloads.
sanitizeLogData_dropping(logData, throws) ==
    IF throws
    THEN [f \in DOMAIN logData |->
             IF f \in PayloadFields THEN Undefined ELSE logData[f]]
    ELSE [f \in DOMAIN logData |->
             IF f \in PayloadFields
             THEN IF Truthy(logData[f])
                  THEN sanitizePayload(removeCircularReferences(logData[f]))
                  ELSE Undefined
             ELSE logData[f]]

\* ActivityLogger.sanitizeLogData(logData).  throws: something inside the
\* try block raises; the catch block returns the original logData.
sanitizeLogData(logData, throws) ==
    IF throws THEN logData
    ELSE LET cleaned == [f \in DOMAIN logData |->
                            IF f \in PayloadFields
                            THEN removeCircularReferences(logData[f])
                            ELSE logData[f]]
         IN  [f \in DOMAIN cleaned |->
                 IF f \in PayloadFields
                 THEN IF Truthy(cleaned[f]) THEN sanitizePayload(cleaned[f])
                      ELSE Undefined
                 ELSE cleaned[f]]

-----------------------------------------------------------------------------
(* Audit entries (CreateLogDto) and their construction.                    *)

\* admin_user_logs.action_type CHECK (action_type IN (...))
ActionTypes == {"login", "logout", "create", "update", "delete", "view", "export"}

Seg_login  == <<"l", "o", "g", "i", "n">>
Seg_logout == <<"l", "o", "g", "o", "u", "t">>
Seg_export == <<"e", "x", "p", "o", "r", "t">>

\* determineActionType(method, path)
determineActionType(method, path) ==
    IF Includes(path, Slash \o Seg_login) THEN "login"
    ELSE IF Includes(path, Slash \o Seg_logout) THEN "logout"
    ELSE IF Includes(path, Slash \o Seg_export) THEN "export"
    ELSE CASE method = "GET" -> "view"
           [] method = "POST" -> "create"
           [] method \in {"PUT", "PATCH"} -> "update"
           [] method = "DELETE" -> "delete"
           [] OTHER -> "unknown"

K_password  == <<"p", "a", "s", "s", "w", "o", "r", "d">>
K_profile   == <<"p", "r", "o", "f", "i", "l", "e">>
K_Api_Key   == <<"A", "p", "i", "_", "K", "e", "y">>
K_name      == <<"n", "a", "m", "e">>
K_key       == <<"k", "e", "y">>
K_items     == <<"i", "t", "e", "m", "s">>
K_userToken == <<"u", "s", "e", "r", "T", "o", "k", "e", "n">>
K_userId    == <<"u", "s", "e", "r", "I", "d">>
K_email     == <<"e", "m", "a", "i", "l">>
K_accessLevel == <<"a", "c", "c", "e", "s", "s", "L", "e", "v", "e", "l">>

\* express.json() leaves {} when the request has no body.
EmptyBody == Obj(<<>>)
\* { password: "hunter2",
\*   profile:  { Api_Key: "k-1", name: "bob" },
\*   items:    [ { userToken: "t-1" } ] }
BodySecrets ==
    Obj(<< <<K_password, Str("hunter2")>>,
           <<K_profile, Obj(<< <<K_Api_Key, Str("k-1")>>,
                               <<K_name, Str("bob")>> >>)>>,
           <<K_items, Arr(<< Obj(<< <<K_userToken, Str("t-1")>> >>) >>)>> >>)
Bodies == {EmptyBody, BodySecrets}

\* ActivityLogger.createLogFromRequest.  rid and src are bookkeeping of the
\* model (which request, and whether the middleware or the service built the
\* entry); they are not columns.
createLogFromRequest(rid, src, userId, actionType, httpMethod, endpointPath, requestPayload, responseStatus, beforeState, afterState) ==
    [rid |-> rid, src |-> src, user_id |-> userId, action_type |-> actionType,
     http_method |-> httpMethod, endpoint_path |-> endpointPath,
     request_payload |-> requestPayload, response_status |-> responseStatus,
     before_state |-> beforeState, after_state |-> afterState]

\* The parameter list of the INSERT: `x ? JSON.stringify(x) : null` for the
\* three JSON columns.
ToRow(logData) ==
    [f \in DOMAIN logData |->
        IF f \in PayloadFields /\ ~Truthy(logData[f]) THEN Null ELSE logData[f]]

\* Whether the INSERT INTO admin_user_logs succeeds: the connection works, the
\* foreign key on user_id and the CHECK on action_type hold.
InsertOk(row, dbOk) ==
    dbOk /\ row.user_id \in users /\ row.action_type \in ActionTypes

-----------------------------------------------------------------------------
(* Requests to /api/admin.  server.ts runs, in order: authMiddleware,      *)
(* activityLoggingMiddleware (app.use('/api/admin', ...)), then the        *)
(* mount's authMiddleware, requireModuleAccess(module, level) and router.  *)

MaxReq == 2
ReqIds == 1..MaxReq

\* The Authorization header: absent, a token that jwt.verify or the payload
\* check rejects, or a token that verifies.
TokenKinds == {"none", "invalid", "valid"}

\* The requiredLevel arguments the gates are built with: server.ts builds
\* every gate with 'read'; the finance gate is also taken with 'admin'.
GateLevels == {"read", "admin"}

EndpointNames == {"view", "update", "deleteUser"}

\* The routes the requests address.  path is req.path inside the mounted
\* router (relative to the mount point): what the gate, the route handler
\* and a logResponse called from them read.  url is req.path once express
\* has left the router again, which is what errorHandler and a logResponse
\* called from it read.
Endpoint(ep) ==
    CASE ep = "view" ->        \* financeRouter.get('/collections')
           [method |-> "GET", mount |-> "finance",
            path |-> PathOf(<<Seg_collections>>),
            url |-> PathOf(<<Seg_api, Seg_admin, Seg_finance, Seg_collections>>),
            handler |-> "finance"]
      [] ep = "update" ->      \* aiAgentsRouter.put('/:id')
           [method |-> "PUT", mount |-> "ai-agents",
            path |-> PathOf(<<Seg_seven>>),
            url |-> PathOf(<<Seg_api, Seg_admin, Seg_aiagents, Seg_seven>>),
            handler |-> "aiAgents"]
      [] ep = "deleteUser" ->  \* usersRouter.delete('/:id')
           [method |-> "DELETE", mount |-> "users",
            path |-> PathOf(<<Seg_two>>),
            url |-> PathOf(<<Seg_api, Seg_admin, Seg_users, Seg_two>>),
            handler |-> "deleteUser"]

\* server.ts: the module each mount's requireModuleAccess is built with.
GateModule(mount) ==
    CASE mount = "users" -> "user-mgmt"
      [] mount = "finance" -> "finance"
      [] mount = "ai-agents" -> "ai-agents"

\* usersRouter.delete('/:id'): parseInt(req.params.id) for the path "/2", and
\* the placeholder `const deletedBy = 1`.
DeleteTarget == 2
DeletedBy == 1
\* usersRouter.post('/:id/permissions'): the placeholder `const grantedBy = 1`.
GrantedBy == 1

NoError == [none |-> TRUE]

\* createError(message, statusCode)
createError(message, statusCode) == [message |-> message, statusCode |-> statusCode]

\* The JSON error object of requireModuleAccess, errorHandler and the routes.
ErrorBody(message, statusCode, path, method) ==
    [message |-> message, statusCode |-> statusCode, timestamp |-> "now",
     path |-> path, method |-> method]

IdleReq ==
    [pc |-> "idle", tok |-> "none", actor |-> 0, ep |-> "view",
     body |-> EmptyBody, level |-> "read", wrapped |-> FALSE, logged |-> FALSE,
     lookup |-> "none", handled |-> FALSE, status |-> 0, error |-> NoError]

\* A queue that holds at most one batch and ignores what does not fit.
enqueue_oneBatch(q, logData) ==
    IF Len(q) >= 10 THEN q
    ELSE Append(q, [logData |-> logData, retryCount |-> 0])

\* An enqueue that puts the new item first.
enqueue_atHead(q, logData) ==
    <<[logData |-> logData, retryCount |-> 0]>> \o q

\* LogQueue.enqueue(logData)
enqueue(q, logData) == Append(q, [logData |-> logData, retryCount |-> 0])

\* ActivityLogger.logSync(logData) up to its await: the sanitized row is
\* handed to db.run.  awaiter: the request whose handler awaits the promise,
\* or 0 when nobody does.
logSync(pend, logData, awaiter, throws) ==
    pend \cup {[row |-> ToRow(sanitizeLogData(logData, throws)),
                awaiter |-> awaiter]}

\* ActivityLogger.logAsync(logData)
logAsync(q, logData, throws) == enqueue(q, sanitizeLogData(logData, throws))

\* The entry logResponse builds for request r answering with statusCode, when
\* req.path reads path.
MwEntry(r, rq, path, statusCode) ==
    LET e == Endpoint(rq.ep) IN
    createLogFromRequest(r, "mw", rq.actor,
        determineActionType(e.method, path), e.method, path,
        IF Len(rq.body.v) > 0 THEN rq.body ELSE Undefined,
        statusCode, Undefined, Undefined)

\* A logResponse that queues every entry, critical or not.
logResponse_allAsync(r, rq, path, statusCode, throws, pend, q, au) ==
    IF ~rq.wrapped \/ rq.logged
    THEN [pend |-> pend, queue |-> q, audit |-> au, logged |-> rq.logged]
    ELSE [pend |-> pend,
          queue |-> logAsync(q, MwEntry(r, rq, path, statusCode), throws),
          audit |-> [au EXCEPT ![r] = @ \cup {"async"}], logged |-> TRUE]

\* A logResponse that is never installed: no entry for any response.
logResponse_silent(r, rq, path, statusCode, throws, pend, q, au) ==
    [pend |-> pend, queue |-> q, audit |-> au, logged |-> rq.logged]

\* activityLoggingMiddleware's logResponse(statusCode), called by the wrapped
\* res.json / res.send and by the 'finish' listener.  Yields the outstanding
\* logSync calls, the queue and the dispatch record after the call.
\* A hook without the `logged` flag.
logResponse_everyCall(r, rq, path, statusCode, throws, pend, q, au) ==
    IF ~rq.wrapped
    THEN [pend |-> pend, queue |-> q, audit |-> au, logged |-> rq.logged]
    ELSE IF isCriticalAction(Endpoint(rq.ep).method, path)
    THEN [pend |-> logSync(pend, MwEntry(r, rq, path, statusCode), 0, throws),
          queue |-> q, audit |-> [au EXCEPT ![r] = @ \cup {"sync"}],
          logged |-> TRUE]
    ELSE [pend |-> pend,
          queue |-> logAsync(q, MwEntry(r, rq, path, statusCode), throws),
          audit |-> [au EXCEPT ![r] = @ \cup {"async"}], logged |-> TRUE]

logResponse(r, rq, path, statusCode, throws, pend, q, au) ==
    IF ~rq.wrapped \/ rq.logged                 \* if (logged) return
    THEN [pend |-> pend, queue |-> q, audit |-> au, logged |-> rq.logged]
    ELSE LET e == Endpoint(rq.ep)
             logData == MwEntry(r, rq, path, statusCode)
             isCritical == isCriticalAction(e.method, path)
         IN  IF isCritical
             THEN [pend |-> logSync(pend, logData, 0, throws), queue |-> q,
                   audit |-> [au EXCEPT ![r] = @ \cup {"sync"}],
                   logged |-> TRUE]
             ELSE [pend |-> pend, queue |-> logAsync(q, logData, throws),
                   audit |-> [au EXCEPT ![r] = @ \cup {"async"}],
                   logged |-> TRUE]

\* res.status(statusCode).json(body) on the response of request r, whose
\* record is rq, while req.path reads path: the wrapped res.json calls
\* logResponse, the original res.json then calls res.send, whose wrapper
\* calls logResponse again, and the response is sent.
SendJson(r, rq, path, statusCode, error, throws, pend) ==
    \E out \in {LET json == logResponse(r, rq, path, statusCode, throws, pend,
                                        queue, audit)
                 IN  logResponse(r, [rq EXCEPT !.logged = json.logged], path,
                                 statusCode, throws, json.pend, json.queue,
                                 json.audit)} :
        /\ pendingSync' = out.pend
        /\ queue' = out.queue
        /\ audit' = out.audit
        /\ req' = [req EXCEPT ![r] =
                      [rq EXCEPT !.pc = "sent", !.logged = out.logged,
                                 !.status = statusCode, !.error = error]]

\* A verifier that decodes the token without verifying it, and treats a
\* request without a token as user 1.
authMiddleware_decodeOnly(tok, claimed) ==
    [error |-> NoError, user |-> IF tok = "none" THEN 1 ELSE claimed]

\* authMiddleware: the error handed to next(), if any, and req.user
\* (0: not set).  claimed is the user id the token's payload names.
authMiddleware(tok, claimed) ==
    CASE tok = "none" ->
           [error |-> createError("Authorization header is required", 401),
            user |-> 0]
      [] tok = "invalid" ->
           [error |-> createError("Invalid token", 401), user |-> 0]
      [] tok = "valid" ->
           [error |-> NoError, user |-> claimed]

\* errorHandler(error, req, res, next): the status and the JSON error object.
errorHandler(error, ep) ==
    ErrorBody(error.message, error.statusCode, Endpoint(ep).url,
              Endpoint(ep).method)

\* AuthService.hasModuleAccess: forwards to the registry; its own catch block
\* also answers false.
AuthService_hasModuleAccess(store, userId, module, requiredLevel, dbError) ==
    hasModuleAccess(store, userId, module, requiredLevel, dbError)

\* A gate that lets every authenticated request through.
requireModuleAccess_open(store, userId, module, requiredLevel, dbError) ==
    IF userId = 0 THEN "unauthenticated" ELSE "next"

\* requireModuleAccess(module, requiredLevel): "unauthenticated" answers 401,
\* "deny" answers 403, "next" calls the downstream handler.  (The catch block
\* cannot be reached: AuthService.hasModuleAccess never rejects.)
requireModuleAccess(store, userId, module, requiredLevel, dbError) ==
    IF userId = 0 THEN "unauthenticated"                  \* if (!req.user)
    ELSE IF AuthService_hasModuleAccess(store, userId, module, requiredLevel,
                                        dbError)
    THEN "next"
    ELSE "deny"

\* A request arrives and runs through authMiddleware.  On next(error) express
\* skips every remaining middleware and errorHandler answers on the bare
\* response.  On next(), activityLoggingMiddleware wraps res.json / res.send
\* if req.user is set, and the chain reaches the mount's gate, which starts
\* its permission lookup.
Arrive(r, tok, claimed, ep, body, level) ==
    /\ req[r].pc = "idle"
    /\ \A q \in ReqIds : q < r => req[q].pc # "idle"
    /\ (tok = "none") = (claimed = 0)
    /\ (Endpoint(ep).method = "GET") => (body = EmptyBody)
    /\ (Endpoint(ep).method = "PUT") => (body # EmptyBody)
    /\ (tok # "valid") => (ep = "view")
    /\ (tok # "valid" \/ ep # "view") => (level = "read")
    /\ LET a == authMiddleware(tok, claimed) IN
       IF a.error # NoError
       THEN req' = [req EXCEPT ![r] =
                       [IdleReq EXCEPT !.pc = "done", !.tok = tok, !.ep = ep,
                                       !.status = a.error.statusCode,
                                       !.error = errorHandler(a.error, ep)]]
       ELSE req' = [req EXCEPT ![r] =
                       [IdleReq EXCEPT !.pc = "gate", !.tok = tok,
                                       !.actor = a.user, !.ep = ep,
                                       !.body = body, !.level = level,
                                       !.wrapped = (a.user # 0)]]
    /\ UNCHANGED <<users, perms, lastCheck, crit, auxVars>>
    /\ UNCHANGED <<audit, pendingSync, queue, isProcessing, batch, logs, lost>>

\* What the gate's `await authService.hasModuleAccess(...)` came back with,
\* kept with the request: "failed" (the SELECT rejected and the catch block
\* answered false), "true" or "false".
LookupOutcome(store, userId, module, requiredLevel, dbError) ==
    IF dbError THEN "failed"
    ELSE IF AuthService_hasModuleAccess(store, userId, module, requiredLevel,
                                        FALSE)
    THEN "true"
    ELSE "false"

\* The gate's lookup returns.  Denied: 403 through res.json.  Allowed:
\* next(), and the route handler runs up to its first await.
Gate(r, dbError, throws) ==
    /\ req[r].pc = "gate"
    /\ LET e == Endpoint(req[r].ep)
           module == GateModule(e.mount)
           rq == [req[r] EXCEPT !.lookup =
                     LookupOutcome(perms, req[r].actor, module, req[r].level,
                                   dbError)]
           verdict == requireModuleAccess(perms, rq.actor, module, rq.level,
                                          dbError)
       IN  CASE verdict = "unauthenticated" ->
                  SendJson(r, rq, e.path, 401,
                      ErrorBody("User not authenticated", 401, e.path, e.method),
                      throws, pendingSync)
             [] verdict = "deny" ->
                  SendJson(r, rq, e.path, 403,
                      ErrorBody(<<"Insufficient permissions", module, rq.level>>,
                                403, e.path, e.method),
                      throws, pendingSync)
             [] verdict = "next" ->
                  /\ req' = [req EXCEPT ![r] =
                                [rq EXCEPT !.pc = "handler", !.handled = TRUE]]
                  /\ UNCHANGED <<audit, pendingSync, queue>>
    /\ UNCHANGED <<users, perms, lastCheck, crit, auxVars>>
    /\ UNCHANGED <<isProcessing, batch, logs, lost>>

\* A route handler that proxies to an upstream API finishes.  The finance
\* routes answer a failure themselves, inside the router; the ai-agents
\* routes let it escape to asyncHandler, and errorHandler answers after
\* express has left the router.
HandlerProxy(r, statusCode, throws) ==
    /\ req[r].pc = "handler"
    /\ Endpoint(req[r].ep).handler \in {"finance", "aiAgents"}
    /\ statusCode \in {200, 500}
    /\ LET e == Endpoint(req[r].ep) IN
       IF statusCode = 200
       THEN SendJson(r, req[r], e.path, 200, NoError, throws, pendingSync)
       ELSE IF e.handler = "finance"
       THEN SendJson(r, req[r], e.path, 500,
                ErrorBody("Failed to retrieve collections metrics", 500,
                          e.path, e.method),
                throws, pendingSync)
       ELSE SendJson(r, req[r], e.url, 500,
                errorHandler(createError("upstream", 500), req[r].ep),
                throws, pendingSync)
    /\ UNCHANGED <<users, perms, lastCheck, crit, auxVars>>
    /\ UNCHANGED <<isProcessing, batch, logs, lost>>

\* The entry deleteUser builds: before_state holds the deleted user.
DeleteUserEntry(r) ==
    createLogFromRequest(r, "svc", DeletedBy, "delete", "none", <<>>,
        Undefined, 0,
        Obj(<< <<K_userId, Str("2")>>, <<K_email, Str("u2@drivelah.sg")>> >>),
        Undefined)

\* usersRouter.delete('/:id') -> UserRegistryService.deleteUser, up to its
\* DELETE statement: the two getUserById reads.  deleteUser throws when the
\* acting or the target user is missing or a read fails, and the route's
\* catch block answers 500.
HandlerDeleteUser(r, dbError, throws) ==
    /\ req[r].pc = "handler"
    /\ Endpoint(req[r].ep).handler = "deleteUser"
    /\ LET e == Endpoint(req[r].ep) IN
       IF DeletedBy \notin users \/ DeleteTarget \notin users \/ dbError
       THEN SendJson(r, req[r], e.path, 500,
                     ErrorBody("Failed to delete user", 500, e.path, e.method),
                     throws, pendingSync)
       ELSE /\ req' = [req EXCEPT ![r].pc = "deleting"]
            /\ UNCHANGED <<audit, pendingSync, queue>>
    /\ UNCHANGED <<users, perms, lastCheck, crit, auxVars>>
    /\ UNCHANGED <<isProcessing, batch, logs, lost>>

\* deleteUser's `DELETE FROM users WHERE id = $1` returns, and deleteUser
\* runs on to the await of its logSync.  The DELETE cascades to
\* user_permissions.user_id and admin_user_logs.user_id; a granted_by
\* reference from another user's permission row makes it fail.
DeleteUserStatement(r, dbError, throws) ==
    /\ req[r].pc = "deleting"
    /\ LET e == Endpoint(req[r].ep) IN
       IF \/ dbError
          \/ \E p \in perms : p.granted_by = DeleteTarget /\ p.user_id # DeleteTarget
       THEN /\ SendJson(r, req[r], e.path, 500,
                        ErrorBody("Failed to delete user", 500, e.path, e.method),
                        throws, pendingSync)
            /\ UNCHANGED <<users, perms, logs>>
       ELSE /\ users' = users \ {DeleteTarget}
            /\ perms' = {p \in perms : p.user_id # DeleteTarget}
            /\ logs' = SelectSeq(logs, LAMBDA row : row.user_id # DeleteTarget)
            /\ pendingSync' = logSync(pendingSync, DeleteUserEntry(r), r, throws)
            /\ req' = [req EXCEPT ![r].pc = "awaitLog"]
            /\ UNCHANGED <<audit, queue>>
    /\ UNCHANGED <<lastCheck, crit, auxVars, isProcessing, batch, lost>>

\* A logSync that keeps a failed entry and writes it again later.
SyncInsert_retrying(w, dbOk, throws) ==
    /\ w \in pendingSync
    /\ IF InsertOk(w.row, dbOk)
       THEN /\ logs' = Append(logs, w.row) /\ lost' = lost
            /\ IF w.awaiter # 0
               THEN SendJson(w.awaiter, req[w.awaiter],
                             Endpoint(req[w.awaiter].ep).path, 200, NoError,
                             throws, pendingSync \ {w})
               ELSE /\ pendingSync' = pendingSync \ {w}
                    /\ UNCHANGED <<req, audit, queue>>
       ELSE /\ logs' = logs /\ lost' = lost \cup {w.row}
            /\ UNCHANGED <<pendingSync, req, audit, queue>>
    /\ UNCHANGED <<users, perms, lastCheck, crit, auxVars, isProcessing, batch>>

\* A logSync whose failed INSERT reaches the awaiting handler, which answers
\* 500.
SyncInsert_raising(w, dbOk, throws) ==
    /\ w \in pendingSync
    /\ IF InsertOk(w.row, dbOk)
       THEN logs' = Append(logs, w.row) /\ lost' = lost
       ELSE logs' = logs /\ lost' = lost \cup {w.row}
    /\ IF w.awaiter # 0
       THEN SendJson(w.awaiter, req[w.awaiter],
                     Endpoint(req[w.awaiter].ep).path,
                     IF InsertOk(w.row, dbOk) THEN 200 ELSE 500,
                     IF InsertOk(w.row, dbOk) THEN NoError
                     ELSE ErrorBody("Failed to delete user", 500,
                                    Endpoint(req[w.awaiter].ep).path,
                                    Endpoint(req[w.awaiter].ep).method),
                     throws, pendingSync \ {w})
       ELSE /\ pendingSync' = pendingSync \ {w}
            /\ UNCHANGED <<req, audit, queue>>
    /\ UNCHANGED <<users, perms, lastCheck, crit, auxVars, isProcessing, batch>>

\* The INSERT of an outstanding logSync call completes.  A failure is caught
\* and only printed.  If deleteUser awaits the call, deleteUser returns and
\* the route answers: res.json(apiResponse).
SyncInsert(w, dbOk, throws) ==
    /\ w \in pendingSync
    /\ IF InsertOk(w.row, dbOk)
       THEN logs' = Append(logs, w.row) /\ lost' = lost
       ELSE logs' = logs /\ lost' = lost \cup {w.row}
    /\ IF w.awaiter # 0
       THEN SendJson(w.awaiter, req[w.awaiter],
                     Endpoint(req[w.awaiter].ep).path, 200, NoError, throws,
                     pendingSync \ {w})
       ELSE /\ pendingSync' = pendingSync \ {w}
            /\ UNCHANGED <<req, audit, queue>>
    /\ UNCHANGED <<users, perms, lastCheck, crit, auxVars, isProcessing, batch>>

\* The response's 'finish' event: the listener calls logResponse once more.
Finish(r, throws) ==
    /\ req[r].pc = "sent"
    /\ \E out \in {logResponse(r, req[r], Endpoint(req[r].ep).url,
                               req[r].status, throws, pendingSync, queue,
                               audit)} :
           /\ pendingSync' = out.pend
           /\ queue' = out.queue
           /\ audit' = out.audit
           /\ req' = [req EXCEPT ![r].pc = "done", ![r].logged = out.logged]
    /\ UNCHANGED <<users, perms, lastCheck, crit, auxVars>>
    /\ UNCHANGED <<isProcessing, batch, logs, lost>>

-----------------------------------------------------------------------------
(* UserRegistryService.setUserPermission and removeUserPermission as the   *)
(* sequences of awaited statements they are.  Calls of different requests  *)
(* interleave at every await.                                              *)

MaxCalls == 2
CallIds == 1..MaxCalls

\* startedAfter: the calls that had returned when this one was made.
IdleCall ==
    [pc |-> "idle", op |-> "none", userId |-> 0, module |-> "none",
     accessLevel |-> "none", by |-> 0, before |-> NoRow, after |-> NoRow,
     startedAfter |-> {}]

\* beforeState / afterState of the entry: { userId, ..., accessLevel }.
PermissionState(userId, permission) ==
    IF permission = NoRow THEN Undefined
    ELSE Obj(<< <<K_userId, Str(userId)>>,
                <<K_accessLevel, Str(permission.access_level)>> >>)

\* The entry the two services hand to logSync.
PermissionEntry(c, call) ==
    createLogFromRequest(c, "svc", call.by,
        IF call.op = "grant" THEN "update" ELSE "delete", "none", <<>>,
        Undefined, 0, PermissionState(call.userId, call.before),
        IF call.op = "grant" THEN PermissionState(call.userId, call.after)
        ELSE Undefined)

\* The call is made and its two getUserById reads find actor and target.
PermissionCall(c, op, userId, module, accessLevel, by) ==
    /\ calls[c].pc = "idle"
    /\ IF c = 1 THEN TRUE ELSE calls[c - 1].pc # "idle"
    /\ userId \in users /\ by \in users
    /\ (op = "revoke") = (accessLevel = "none")
    /\ calls' = [calls EXCEPT ![c] =
                    [IdleCall EXCEPT !.pc = "read", !.op = op,
                        !.userId = userId, !.module = module,
                        !.accessLevel = accessLevel, !.by = by,
                        !.startedAfter =
                            {d \in CallIds : calls[d].pc = "done"}]]
    /\ UNCHANGED <<users, perms, lastCheck, crit, extVars, san, flush, now, cleanup, attempts>>
    /\ UNCHANGED auditVars

\* const beforePermission = await db.get(SELECT ...)
PermissionReadBefore(c) ==
    /\ calls[c].pc = "read"
    /\ calls' = [calls EXCEPT ![c].pc = "write",
                              ![c].before = SelectPermission(perms,
                                  calls[c].userId, calls[c].module)]
    /\ UNCHANGED <<users, perms, lastCheck, crit, extVars, san, flush, now, cleanup, attempts>>
    /\ UNCHANGED auditVars

\* A setUserPermission that inserts or updates depending on what its earlier
\* read returned.
PermissionWrite_fromRead(c) ==
    /\ calls[c].pc = "write"
    /\ IF calls[c].op = "grant"
       THEN /\ perms' =
                  IF calls[c].before = NoRow
                  THEN perms \cup {[user_id |-> calls[c].userId,
                                    module |-> calls[c].module,
                                    access_level |-> calls[c].accessLevel,
                                    granted_by |-> calls[c].by]}
                  ELSE UpsertPermission(perms, calls[c].userId,
                           calls[c].module, calls[c].accessLevel, calls[c].by)
            /\ calls' = [calls EXCEPT ![c].pc = "reread"]
       ELSE /\ perms' = DeletePermission(perms, calls[c].userId,
                                         calls[c].module)
            /\ calls' = [calls EXCEPT ![c].pc = "awaitLog"]
    /\ UNCHANGED <<users, lastCheck, crit, extVars, san, flush, now, cleanup, attempts>>
    /\ UNCHANGED auditVars

\* await db.run(INSERT ... ON CONFLICT ... DO UPDATE) in setUserPermission,
\* await db.run(DELETE ...) in removeUserPermission.
PermissionWrite(c) ==
    /\ calls[c].pc = "write"
    /\ IF calls[c].op = "grant"
       THEN /\ perms' = UpsertPermission(perms, calls[c].userId,
                            calls[c].module, calls[c].accessLevel, calls[c].by)
            /\ calls' = [calls EXCEPT ![c].pc = "reread"]
       ELSE /\ perms' = DeletePermission(perms, calls[c].userId,
                                         calls[c].module)
            /\ calls' = [calls EXCEPT ![c].pc = "awaitLog"]
    /\ UNCHANGED <<users, lastCheck, crit, extVars, san, flush, now, cleanup, attempts>>
    /\ UNCHANGED auditVars

\* const afterPermission = await db.get(SELECT ...); the entry is built and
\* logSync called.
PermissionReread(c) ==
    /\ calls[c].pc = "reread"
    /\ calls' = [calls EXCEPT ![c].pc = "awaitLog",
                              ![c].after = SelectPermission(perms,
                                  calls[c].userId, calls[c].module)]
    /\ UNCHANGED <<users, perms, lastCheck, crit, extVars, san, flush, now, cleanup, attempts>>
    /\ UNCHANGED auditVars

\* await activityLogger.logSync(logData) settles, whether or not the INSERT
\* succeeded, and the call returns.
PermissionLogged(c, dbOk, throws) ==
    /\ calls[c].pc = "awaitLog"
    /\ \E row \in {ToRow(sanitizeLogData(PermissionEntry(c, calls[c]), throws))} :
          IF InsertOk(row, dbOk)
          THEN logs' = Append(logs, row) /\ lost' = lost
          ELSE logs' = logs /\ lost' = lost \cup {row}
    /\ calls' = [calls EXCEPT ![c].pc = "done"]
    /\ UNCHANGED <<users, perms, lastCheck, crit, extVars, san, flush, now, cleanup, attempts>>
    /\ UNCHANGED <<req, audit, pendingSync, queue, isProcessing, batch>>

\* The routes POST /:id/permissions and DELETE /:id/permissions/:module
\* around the two services.

\* setPermissionSchema.validate(req.body) reports an error: the route
\* answers 400 and the service is not called.
PermissionRouteInvalid(c, userId, module, accessLevel) ==
    /\ calls[c].pc = "idle"
    /\ IF c = 1 THEN TRUE ELSE calls[c - 1].pc # "idle"
    /\ accessLevel \notin Levels
    /\ calls' = [calls EXCEPT ![c] =
                    [IdleCall EXCEPT !.pc = "refused", !.op = "grant",
                        !.userId = userId, !.module = module,
                        !.accessLevel = accessLevel]]
    /\ answers' = [answers EXCEPT ![c] = 400]
    /\ UNCHANGED <<users, perms, lastCheck, crit, export, proc, sched, san, flush, now, cleanup, attempts>>
    /\ UNCHANGED auditVars

\* The call is made and one of its getUserById reads fails or finds nobody:
\* the service throws ('Actor user not found', 'Target user not found', or
\* the driver's error), logs and rethrows.
PermissionCallRejected(c, op, userId, module, accessLevel, by, dbError) ==
    /\ calls[c].pc = "idle"
    /\ IF c = 1 THEN TRUE ELSE calls[c - 1].pc # "idle"
    /\ dbError \/ userId \notin users \/ by \notin users
    /\ (op = "revoke") = (accessLevel = "none")
    /\ calls' = [calls EXCEPT ![c] =
                    [IdleCall EXCEPT !.pc = "thrown", !.op = op,
                        !.userId = userId, !.module = module,
                        !.accessLevel = accessLevel, !.by = by,
                        !.startedAfter =
                            {d \in CallIds : calls[d].pc = "done"}]]
    /\ UNCHANGED <<users, perms, lastCheck, crit, extVars, san, flush, now, cleanup, attempts>>
    /\ UNCHANGED auditVars

\* What the route answers once the awaited service call has settled:
\* res.json(apiResponse) after a return, the catch block's 500 after a throw.
permissionRouteStatus(pc) == IF pc = "done" THEN 200 ELSE 500

PermissionRouteAnswer(c) ==
    /\ calls[c].pc \in {"done", "thrown"}
    /\ answers[c] = 0
    /\ answers' = [answers EXCEPT ![c] = permissionRouteStatus(calls[c].pc)]
    /\ UNCHANGED <<users, perms, lastCheck, crit, export, proc, sched, san, calls, flush, now, cleanup, attempts>>
    /\ UNCHANGED auditVars

-----------------------------------------------------------------------------
(* LogQueue: the background worker.                                        *)

MAX_RETRIES == 3
BATCH_SIZE == 10

Min(a, b) == IF a < b THEN a ELSE b

\* A slice that runs to the end of the array.
slice_toEnd(arr, start, end) == SubSeq(arr, start + 1, Len(arr))

\* Array.prototype.slice(start, end) for 0 <= start <= end.
slice(arr, start, end) == SubSeq(arr, start + 1, Min(end, Len(arr)))

\* A processQueue that starts a drain whenever the queue holds an item.
processQueueReturns_emptyOnly(processing, queueLength) == queueLength = 0

\* if (this.isProcessing || this.queue.length === 0) return;
processQueueReturns(processing, queueLength) ==
    processing \/ queueLength = 0

\* A timer tick calls processQueue: unless a drain is running or the queue is
\* empty, the flag is set, the batch is cut and the first write starts.
Tick ==
    /\ ~processQueueReturns(isProcessing, Len(queue))
    /\ isProcessing' = TRUE
    /\ batch' = slice(queue, 0, BATCH_SIZE)
    /\ UNCHANGED <<users, perms, lastCheck, crit, auxVars>>
    /\ UNCHANGED <<req, audit, pendingSync, queue, logs, lost>>

\* A worker that discards an item at its first failed write.
DrainWrite_dropAtOnce(dbOk) ==
    /\ isProcessing
    /\ batch # <<>>
    /\ LET item    == Head(batch)
           row     == ToRow(item.logData)
           success == InsertOk(row, dbOk)
       IN  /\ IF success
              THEN /\ logs' = Append(logs, row)
                   /\ queue' = Tail(queue)
                   /\ lost' = lost
              ELSE /\ queue' = Tail(queue)
                   /\ lost' = lost \cup {row}
                   /\ logs' = logs
           /\ batch' = Tail(batch)
           /\ isProcessing' = (Tail(batch) # <<>>)
    /\ UNCHANGED <<users, perms, lastCheck, crit, extVars, san, calls, flush, now, cleanup>>
    /\ UNCHANGED <<req, audit, pendingSync>>

\* A worker whose flag is reset on the normal path only.
processingAfterDrain_stuckOnError(threw) == threw

\* finally { this.isProcessing = false; }, reached from the end of the loop
\* and from the catch block alike.
processingAfterDrain(threw) == FALSE

\* writeLogToDatabase for the current batch item returns; the loop body runs
\* and either a next write starts or the finally block clears the flag.
DrainWrite(dbOk) ==
    /\ isProcessing
    /\ batch # <<>>
    /\ LET item    == Head(batch)
           row     == ToRow(item.logData)
           success == InsertOk(row, dbOk)
           retried == [item EXCEPT !.retryCount = @ + 1]
       IN  /\ IF success
              THEN /\ logs' = Append(logs, row)
                   /\ queue' = Tail(queue)
                   /\ lost' = lost
              ELSE IF retried.retryCount >= MAX_RETRIES
              THEN /\ queue' = Tail(queue)
                   /\ lost' = lost \cup {row}
                   /\ logs' = logs
              ELSE /\ queue' = Append(Tail(queue), retried)
                   /\ UNCHANGED <<logs, lost>>
           /\ batch' = Tail(batch)
           /\ isProcessing' = IF Tail(batch) # <<>> THEN TRUE
                              ELSE processingAfterDrain(FALSE)
    /\ UNCHANGED <<users, perms, lastCheck, crit, extVars, san, calls, flush, now, cleanup>>
    /\ UNCHANGED <<req, audit, pendingSync>>

\* A statement of the loop throws while a drain is running: the catch block
\* prints, the rest of the batch is not attempted, and the finally block
\* runs.
DrainThrows ==
    /\ isProcessing
    /\ batch # <<>>
    /\ batch' = <<>>
    /\ isProcessing' = processingAfterDrain(TRUE)
    /\ UNCHANGED <<users, perms, lastCheck, crit, auxVars>>
    /\ UNCHANGED <<req, audit, pendingSync, queue, logs, lost>>

-----------------------------------------------------------------------------
(* LogQueue.flush.  elapsed is Date.now() - startTime in milliseconds, as   *)
(* the loop test reads it; it is kept up to maxFlushTime, beyond which the *)
(* test no longer tells values apart.                                      *)

maxFlushTime == 5000
FlushSleepMs == 100

\* flush has not been called.
NoFlush ==
    [pc |-> "idle", elapsed |-> 0, busyAtStart |-> FALSE, remaining |-> 0]

\* A loop test without the deadline.
flushContinues_noDeadline(queueLength, elapsed) == queueLength > 0

\* while (this.queue.length > 0 && (Date.now() - startTime) < maxFlushTime)
flushContinues(queueLength, elapsed) ==
    queueLength > 0 /\ elapsed < maxFlushTime

\* flush() is called: startTime is taken.  busyAtStart: a drain started by
\* the timer is running at that moment.
FlushStart ==
    /\ flush.pc = "idle"
    /\ flush' = [NoFlush EXCEPT !.pc = "loop", !.busyAtStart = isProcessing]
    /\ UNCHANGED <<users, perms, lastCheck, crit, extVars, san, calls, now, cleanup, attempts>>
    /\ UNCHANGED auditVars

\* The loop test, and on entering the body the call of processQueue up to
\* its first await: it returns at once when a drain is running, otherwise it
\* sets the flag and cuts a batch.  When the test fails flush logs how many
\* items remain and returns.
FlushLoop ==
    /\ flush.pc = "loop"
    /\ IF flushContinues(Len(queue), flush.elapsed)
       THEN IF processQueueReturns(isProcessing, Len(queue))
            THEN /\ flush' = [flush EXCEPT !.pc = "sleep"]
                 /\ UNCHANGED <<isProcessing, batch>>
            ELSE /\ isProcessing' = TRUE
                 /\ batch' = slice(queue, 0, BATCH_SIZE)
                 /\ flush' = [flush EXCEPT !.pc = "drain"]
       ELSE /\ flush' = [flush EXCEPT !.pc = "returned",
                                      !.remaining = Len(queue)]
            /\ UNCHANGED <<isProcessing, batch>>
    /\ UNCHANGED <<users, perms, lastCheck, crit, extVars, san, calls, now, cleanup, attempts>>
    /\ UNCHANGED <<req, audit, pendingSync, queue, logs, lost>>

\* The drain flush started has run its finally block: `await
\* this.processQueue()` resumes, before any timer callback can run.
FlushResume ==
    /\ flush.pc = "drain"
    /\ ~isProcessing
    /\ flush' = [flush EXCEPT !.pc = "sleep"]
    /\ UNCHANGED <<users, perms, lastCheck, crit, extVars, san, calls, now, cleanup, attempts>>
    /\ UNCHANGED auditVars

\* The 100 ms timer of the loop body fires.  spent: the time the awaited
\* processQueue took on top of it.
FlushSleep(spent) ==
    /\ flush.pc = "sleep"
    /\ flush' = [flush EXCEPT !.pc = "loop",
                   !.elapsed = Min(maxFlushTime, @ + FlushSleepMs + spent)]
    /\ UNCHANGED <<users, perms, lastCheck, crit, extVars, san, calls, now, cleanup, attempts>>
    /\ UNCHANGED auditVars

-----------------------------------------------------------------------------
(* LogCleanupService.deleteOldLogs.  Times are whole days.  JavaScript     *)
(* values that the code tests with || and === carry their type: Num(n) is  *)
(* a number, Str(x) a string.                                              *)

RETENTION_DAYS == 365

Num(n) == [t |-> "num", v |-> n]

\* A row as the INSERT stores it: created_at is NOW().
Stamped(row, t) ==
    [f \in DOMAIN row \cup {"created_at"} |->
        IF f = "created_at" THEN t ELSE row[f]]

\* SELECT COUNT(*) as count ... WHERE created_at < $1, as db.get returns it:
\* count(*) is a bigint and the pg driver, with its default type parsers,
\* hands a bigint over as its decimal string.
SelectCountOlder(table, cutoffDate) ==
    [count |-> Str(ToString(Cardinality(
        {i \in 1..Len(table) : table[i].created_at < cutoffDate})))]

\* x || 0
OrZero(x) ==
    IF x = Undefined \/ x = Null \/ x = Str("") \/ x = Num(0) THEN Num(0)
    ELSE x

\* DELETE FROM admin_user_logs WHERE created_at < $1
DeleteOlder(table, cutoffDate) ==
    SelectSeq(table, LAMBDA row : ~(row.created_at < cutoffDate))

\* lastCutoff, lastRunAt: the cutoff and the time of the last run that
\* returned; removed: the rows its DELETE took out.
NoCleanup ==
    [pc |-> "idle", cutoffDate |-> 0, deleteCount |-> Undefined,
     result |-> Undefined, removed |-> 0, startedAt |-> 0, lastRunAt |-> -1]

\* The call record c when deleteOldLogs() is called at time t.
deleteOldLogsCalled(c, t) ==
    [c EXCEPT !.pc = "count",
              !.cutoffDate = t - RETENTION_DAYS,
              !.startedAt = t,
              !.lastRunAt = IF c.pc = "returned" THEN c.startedAt ELSE -1]

\* deleteOldLogs() is called: cutoffDate = now - RETENTION_DAYS, and the
\* count query is sent.
CleanupStart ==
    /\ cleanup.pc \in {"idle", "returned"}
    /\ cleanup' = deleteOldLogsCalled(cleanup, now)
    /\ UNCHANGED <<users, perms, lastCheck, crit, extVars, san, calls, flush, now, attempts>>
    /\ UNCHANGED auditVars

\* The count comes back: deleteCount = countResult?.count || 0, and
\* `if (deleteCount === 0) return 0`; otherwise the DELETE is sent.
CleanupCount ==
    /\ cleanup.pc = "count"
    /\ LET countResult == SelectCountOlder(logs, cleanup.cutoffDate)
           deleteCount == OrZero(countResult.count)
       IN  IF deleteCount = Num(0)
           THEN cleanup' = [cleanup EXCEPT !.pc = "returned",
                              !.deleteCount = deleteCount,
                              !.result = Num(0), !.removed = 0]
           ELSE cleanup' = [cleanup EXCEPT !.pc = "delete",
                              !.deleteCount = deleteCount]
    /\ UNCHANGED <<users, perms, lastCheck, crit, extVars, san, calls, flush, now, attempts>>
    /\ UNCHANGED auditVars

\* The DELETE returns and deleteOldLogs returns deleteCount.
CleanupDelete ==
    /\ cleanup.pc = "delete"
    /\ logs' = DeleteOlder(logs, cleanup.cutoffDate)
    /\ cleanup' = [cleanup EXCEPT !.pc = "returned",
                     !.result = cleanup.deleteCount,
                     !.removed = Len(logs) - Len(logs')]
    /\ UNCHANGED <<users, perms, lastCheck, crit, extVars, san, calls, flush, now, attempts>>
    /\ UNCHANGED <<req, audit, pendingSync, queue, isProcessing, batch, lost>>

-----------------------------------------------------------------------------
(* logsRouter.get('/export/data').  The rows of admin_user_logs are        *)
(* counted, not listed: a request is described by the number of rows its   *)
(* filters match, and an answer by its status and the number of rows in    *)
(* its body.                                                               *)

ExportLimit == 10000       \* LIMIT 10000
ExportTooLarge == 10000    \* if (logs.length >= 10000)

ExportFormats == {"json", "csv"}

NoExport ==
    [pc |-> "idle", matching |-> 0, format |-> "json", dbError |-> FALSE,
     fetched |-> 0, status |-> 0, returned |-> 0]

\* SELECT * FROM admin_user_logs <where> ORDER BY created_at DESC LIMIT n:
\* the number of rows db.all resolves to.
SelectLimited(matching, limit) == Min(matching, limit)

\* The route after the query: 400 without rows when the result is too
\* large, otherwise every fetched row, as JSON or as CSV.
exportAnswer(fetched, format) ==
    IF fetched >= ExportTooLarge
    THEN [status |-> 400, returned |-> 0]
    ELSE [status |-> 200, returned |-> fetched]

\* GET /export/data arrives with filters that match `matching` rows.
ExportRequest(matching, format) ==
    /\ export.pc = "idle"
    /\ export' = [export EXCEPT !.pc = "query", !.matching = matching,
                                !.format = format]
    /\ UNCHANGED <<users, perms, lastCheck, crit, san, calls, flush, now, cleanup, attempts, answers, proc, sched>>
    /\ UNCHANGED auditVars

\* await db.all(...) settles.  A rejection leaves the handler through
\* asyncHandler's catch(next), and errorHandler answers 500.
ExportSelect(dbError) ==
    /\ export.pc = "query"
    /\ export' =
          IF dbError
          THEN [export EXCEPT !.pc = "answered", !.dbError = TRUE,
                              !.status = 500]
          ELSE [export EXCEPT !.pc = "fetched",
                   !.fetched = SelectLimited(export.matching, ExportLimit)]
    /\ UNCHANGED <<users, perms, lastCheck, crit, san, calls, flush, now, cleanup, attempts, answers, proc, sched>>
    /\ UNCHANGED auditVars

\* The length test and the response.
ExportRespond ==
    /\ export.pc = "fetched"
    /\ \E out \in {exportAnswer(export.fetched, export.format)} :
          export' = [export EXCEPT !.pc = "answered", !.status = out.status,
                                   !.returned = out.returned]
    /\ UNCHANGED <<users, perms, lastCheck, crit, san, calls, flush, now, cleanup, attempts, answers, proc, sched>>
    /\ UNCHANGED auditVars

-----------------------------------------------------------------------------
(* The server process.  server.ts registers no listener for SIGTERM,       *)
(* SIGINT or 'beforeExit': a termination signal ends the process by the    *)
(* runtime's default action, with whatever the queue holds in memory.      *)

Running == [exited |-> FALSE, queuedAtSignal |-> 0]

\* What runs between the signal and the end of the process: nothing.
onSignal(queueLength) ==
    [exited |-> TRUE, queuedAtSignal |-> queueLength]

Shutdown ==
    /\ ~proc.exited
    /\ proc' = onSignal(Len(queue))
    /\ UNCHANGED <<users, perms, lastCheck, crit, export, answers, sched, san, calls, flush, now, cleanup, attempts>>
    /\ UNCHANGED auditVars

-----------------------------------------------------------------------------
(* startServer's scheduleCleanup.  A setTimeout fires at the next midnight *)
(* and its callback awaits deleteOldLogs inside try/catch, then registers  *)
(* a setInterval of 24 hours whose callback does the same.  Days are       *)
(* counted in midnights; runs and errors count the calls of deleteOldLogs  *)
(* and the 'Log cleanup job failed' messages.                              *)

NoSched ==
    [pc |-> "waiting", due |-> 1, runs |-> 0, errors |-> 0, lastRun |-> 0,
     failedOn |-> 0]

\* A job whose timer callback gives up after a failed run.
onCleanupSettled_stopping(s, failed, t) ==
    [s EXCEPT !.pc = IF failed THEN "stopped" ELSE "armed", !.due = t + 1,
              !.errors = IF failed THEN @ + 1 ELSE @,
              !.failedOn = IF failed THEN t ELSE @]

\* The callback after `await logCleanup.deleteOldLogs()` has settled: the
\* catch block logs a rejection, and the next run is one interval away (the
\* first callback registers the interval here, the later ones are its ticks).
onCleanupSettled(s, failed, t) ==
    [s EXCEPT !.pc = "armed", !.due = t + 1,
              !.errors = IF failed THEN @ + 1 ELSE @,
              !.failedOn = IF failed THEN t ELSE @]

\* The timeout or the interval fires: the callback calls deleteOldLogs.
TimerFire ==
    /\ sched.pc \in {"waiting", "armed"}
    /\ sched.due <= now
    /\ sched' = [sched EXCEPT !.pc = "run", !.runs = @ + 1, !.lastRun = now]
    /\ cleanup' = deleteOldLogsCalled(cleanup, now)
    /\ UNCHANGED <<users, perms, lastCheck, crit, export, answers, proc, san, calls, flush, now, attempts>>
    /\ UNCHANGED auditVars

\* A statement of deleteOldLogs is rejected: its catch block logs and
\* rethrows.
CleanupFail ==
    /\ cleanup.pc \in {"count", "delete"}
    /\ cleanup' = [cleanup EXCEPT !.pc = "failed"]
    /\ UNCHANGED <<users, perms, lastCheck, crit, extVars, san, calls, flush, now, attempts>>
    /\ UNCHANGED auditVars

\* The callback resumes after the awaited call.
TimerSettle ==
    /\ sched.pc = "run"
    /\ cleanup.pc \in {"returned", "failed"}
    /\ sched' = onCleanupSettled(sched, cleanup.pc = "failed", now)
    /\ UNCHANGED <<users, perms, lastCheck, crit, export, answers, proc, san, calls, flush, now, cleanup, attempts>>
    /\ UNCHANGED auditVars

\* Midnight passes.  A timer that is due fires before the next one, and a
\* run settles within its day.
DayPasses(last) ==
    /\ now < last
    /\ sched.pc \in {"waiting", "armed", "stopped"}
    /\ sched.pc = "stopped" \/ now < sched.due
    /\ now' = now + 1
    /\ UNCHANGED <<users, perms, lastCheck, crit, extVars, san, calls, flush, cleanup, attempts>>
    /\ UNCHANGED auditVars

-----------------------------------------------------------------------------
(* Specifications.                                                         *)

Row(u, m, l) ==
    [user_id |-> u, module |-> m, access_level |-> l, granted_by |-> GrantedBy]

\* The permission store the requests run against: user 1, whose role is
\* admin, has no row for finance; user 2 holds finance:write.
InitialStore ==
    {Row(1, "user-mgmt", "admin"), Row(1, "ai-agents", "read"),
     Row(2, "finance", "write"), Row(2, "user-mgmt", "read")}

\* No sanitizer call and no permission call has been made.
NoSan == [called |-> FALSE]
InitAux ==
    /\ san = NoSan
    /\ calls = [c \in CallIds |-> IdleCall]
    /\ flush = NoFlush
    /\ now = 0
    /\ cleanup = NoCleanup
    /\ attempts = <<>>
    /\ export = NoExport
    /\ answers = [c \in CallIds |-> 0]
    /\ proc = Running
    /\ sched = NoSched

InitAudit ==
    /\ req = [r \in ReqIds |-> IdleReq]
    /\ audit = [r \in ReqIds |-> {}]
    /\ pendingSync = {}
    /\ queue = <<>>
    /\ isProcessing = FALSE
    /\ batch = <<>>
    /\ logs = <<>>
    /\ lost = {}

\* The request pipeline with the sync writer and the queue worker.
Init ==
    /\ users = UserIds
    /\ perms = InitialStore
    /\ lastCheck = NoCheck
    /\ crit = NoCrit
    /\ InitAudit
    /\ InitAux

Next ==
    \/ \E r \in ReqIds, tok \in TokenKinds, claimed \in UserIds \cup {0},
          ep \in EndpointNames, body \in Bodies, level \in GateLevels :
            Arrive(r, tok, claimed, ep, body, level)
    \/ \E r \in ReqIds, dbError \in BOOLEAN, throws \in BOOLEAN :
            Gate(r, dbError, throws)
    \/ \E r \in ReqIds, statusCode \in {200, 500}, throws \in BOOLEAN :
            HandlerProxy(r, statusCode, throws)
    \/ \E r \in ReqIds, dbError \in BOOLEAN, throws \in BOOLEAN :
            HandlerDeleteUser(r, dbError, throws)
    \/ \E r \in ReqIds, dbError \in BOOLEAN, throws \in BOOLEAN :
            DeleteUserStatement(r, dbError, throws)
    \/ \E w \in pendingSync, dbOk \in BOOLEAN, throws \in BOOLEAN :
            SyncInsert(w, dbOk, throws)
    \/ \E r \in ReqIds, throws \in BOOLEAN : Finish(r, throws)
    \/ Tick
    \/ \E dbOk \in BOOLEAN : DrainWrite(dbOk) /\ UNCHANGED attempts

Spec == Init /\ [][Next]_vars

\* The access evaluator over the stores that grants and revokes produce.
InitAccess ==
    /\ users = UserIds
    /\ perms = {}
    /\ lastCheck = NoCheck
    /\ crit = NoCrit
    /\ InitAudit
    /\ InitAux

\* The modules that grants, revokes and checks are exercised on.
AccessModules == {"finance", "user-mgmt"}

NextAccess ==
    \/ \E u \in UserIds, m \in AccessModules, l \in Levels :
            StoreGrant(u, m, l, GrantedBy)
    \/ \E u \in UserIds, m \in AccessModules : StoreRevoke(u, m)
    \/ \E u \in UserIds, m \in AccessModules, l \in LevelStrings,
          dbError \in BOOLEAN :
            CheckAccess(u, m, l, dbError)

SpecAccess == InitAccess /\ [][NextAccess]_vars

\* The dispatch policy over methods and paths.
MaxSegs == 3
CritSegments ==
    {Seg_auth, Seg_authors, Seg_users, Seg_permissions, Seg_finance, Seg_two}
CritPaths == UNION {[1..n -> CritSegments] : n \in 0..MaxSegs}

\* One call per behaviour: the function keeps no state between calls.
NextCritical ==
    /\ ~crit.called
    /\ \E method \in Methods, segs \in CritPaths : Classify(method, segs)

SpecCritical == InitAccess /\ [][NextCritical]_vars

\* Grants and revokes as interleaved calls, on the finance permission of
\* either user, starting from an empty store or from one that holds a row.
InitGrants ==
    /\ users = UserIds
    /\ perms \in {{}, {[user_id |-> 2, module |-> "finance",
                         access_level |-> "write", granted_by |-> 2]}}
    /\ lastCheck = NoCheck
    /\ crit = NoCrit
    /\ InitAudit
    /\ InitAux

NextGrants ==
    \/ \E c \in CallIds, userId \in UserIds, accessLevel \in Levels,
          by \in UserIds :
            PermissionCall(c, "grant", userId, "finance", accessLevel, by)
    \/ \E c \in CallIds, userId \in UserIds, by \in UserIds :
            PermissionCall(c, "revoke", userId, "finance", "none", by)
    \/ \E c \in CallIds : PermissionReadBefore(c)
    \/ \E c \in CallIds : PermissionWrite(c)
    \/ \E c \in CallIds : PermissionReread(c)
    \/ \E c \in CallIds, dbOk \in BOOLEAN, throws \in BOOLEAN :
            PermissionLogged(c, dbOk, throws)

SpecGrants == InitGrants /\ [][NextGrants]_vars

\* The finance gate next to grants and revokes of finance permissions:
\* requests with a verified token reach the gate before, between and after
\* the statements of the permission calls.  All of them concern the user
\* who holds finance:write in the initial store.
RevokeTarget ==
    CHOOSE u \in UserIds : SelectPermission(InitialStore, u, "finance") # NoRow
NextRevoke ==
    \/ \E c \in CallIds, accessLevel \in GateLevels :
            PermissionCall(c, "grant", RevokeTarget, "finance", accessLevel,
                           GrantedBy)
    \/ \E c \in CallIds :
            PermissionCall(c, "revoke", RevokeTarget, "finance", "none",
                           GrantedBy)
    \/ \E c \in CallIds : PermissionReadBefore(c)
    \/ \E c \in CallIds : PermissionWrite(c)
    \/ \E c \in CallIds : PermissionReread(c)
    \/ \E c \in CallIds : PermissionLogged(c, TRUE, FALSE)
    \/ \E r \in ReqIds, level \in GateLevels :
            Arrive(r, "valid", RevokeTarget, "view", EmptyBody, level)
    \/ \E r \in ReqIds, dbError \in BOOLEAN : Gate(r, dbError, FALSE)

SpecRevoke == InitGrants /\ [][NextRevoke]_vars

\* The two permission routes, called for the users of the table and for an
\* id no row of users has, with valid and invalid levels; the acting user
\* is the routes' placeholder.
RouteUserIds == UserIds \cup {Cardinality(UserIds) + 1}

NextRoutes ==
    \/ \E c \in CallIds, userId \in RouteUserIds :
          PermissionRouteInvalid(c, userId, "finance", UnknownLevel)
    \/ \E c \in CallIds, userId \in RouteUserIds, accessLevel \in Levels :
          PermissionCall(c, "grant", userId, "finance", accessLevel, GrantedBy)
    \/ \E c \in CallIds, userId \in RouteUserIds :
          PermissionCall(c, "revoke", userId, "finance", "none", GrantedBy)
    \/ \E c \in CallIds, userId \in RouteUserIds, accessLevel \in Levels,
          dbError \in BOOLEAN :
            PermissionCallRejected(c, "grant", userId, "finance", accessLevel,
                                   GrantedBy, dbError)
    \/ \E c \in CallIds, userId \in RouteUserIds, dbError \in BOOLEAN :
            PermissionCallRejected(c, "revoke", userId, "finance", "none",
                                   GrantedBy, dbError)
    \/ \E c \in CallIds : PermissionReadBefore(c)
    \/ \E c \in CallIds : PermissionWrite(c)
    \/ \E c \in CallIds : PermissionReread(c)
    \/ \E c \in CallIds, dbOk \in BOOLEAN, throws \in BOOLEAN :
            PermissionLogged(c, dbOk, throws)
    \/ \E c \in CallIds : PermissionRouteAnswer(c)

SpecRoutes == InitGrants /\ [][NextRoutes]_vars

\* The queue and its worker alone.  Entries arrive through logAsync, as the
\* middleware hands them over for GET and HEAD requests of
\* /api/admin/finance/collections; the entry of a HEAD request carries the
\* action type 'unknown', which the CHECK on action_type rejects at every
\* attempt.  attempts counts the writeLogToDatabase calls per entry.
MaxQueued == 3
QueuedEntry(n, method) ==
    createLogFromRequest(n, "mw", 1,
        determineActionType(method, Slash \o Seg_collections), method,
        Slash \o Seg_collections, Undefined, 200, Undefined, Undefined)

EnqueueEntry(cap, method) ==
    /\ Len(attempts) < cap
    /\ queue' = logAsync(queue, QueuedEntry(Len(attempts) + 1, method), FALSE)
    /\ attempts' = Append(attempts, 0)
    /\ UNCHANGED <<users, perms, lastCheck, crit, extVars, san, calls, flush, now, cleanup>>
    /\ UNCHANGED <<req, audit, pendingSync, isProcessing, batch, logs, lost>>

Attempt(dbOk) ==
    /\ DrainWrite(dbOk)
    /\ attempts' = [attempts EXCEPT ![Head(batch).logData.rid] = @ + 1]

NextQueue ==
    \/ \E method \in {"GET", "HEAD"} : EnqueueEntry(MaxQueued, method)
    \/ Tick
    \/ \E dbOk \in BOOLEAN : Attempt(dbOk)

\* setInterval keeps calling processQueue, and every db.run settles.
SpecQueue ==
    /\ InitAccess /\ [][NextQueue]_vars
    /\ WF_vars(Tick)
    /\ WF_vars(\E dbOk \in BOOLEAN : Attempt(dbOk))

\* The queue with a storage writer that never fails: a burst of GET entries
\* larger than two batches.
BurstSize == 25
NextDrain ==
    \/ EnqueueEntry(BurstSize, "GET")
    \/ Tick
    \/ Attempt(TRUE)

SpecDrain ==
    /\ InitAccess /\ [][NextDrain]_vars
    /\ WF_vars(Tick)
    /\ WF_vars(Attempt(TRUE))

\* The worker on a queue longer than one batch: entries of GET requests,
\* which the writer persists, and of HEAD requests, which every write
\* rejects, arrive before and during drains; only the first MaxRejected
\* arrivals may be of HEAD requests.
MaxArrivals == 11
MaxRejected == 1
NextBatch ==
    \/ \E method \in {"GET"} \cup
                      (IF Len(attempts) < MaxRejected THEN {"HEAD"} ELSE {}) :
          EnqueueEntry(MaxArrivals, method)
    \/ Tick
    \/ Attempt(TRUE)

SpecBatch == InitAccess /\ [][NextBatch]_vars

\* The queue worker in a process that can be terminated at any time.
NextShutdown ==
    \/ \E method \in {"GET", "HEAD"} :
          ~proc.exited /\ EnqueueEntry(MaxQueued, method)
    \/ ~proc.exited /\ Tick
    \/ \E dbOk \in BOOLEAN : ~proc.exited /\ Attempt(dbOk)
    \/ Shutdown

SpecShutdown == InitAccess /\ [][NextShutdown]_vars

\* flush next to the timer-driven worker.  Entries keep arriving while the
\* queue holds fewer than MaxPending: entries of HEAD requests, which no
\* write ever persists, without limit, and MaxWritable entries of GET
\* requests, whose writes succeed or fail.  A processQueue that had to wait
\* for a database connection spends connectionTimeoutMillis on it.
MaxPending == 2
MaxWritable == 1
ConnectionTimeoutMs == 2000

EnqueueUnwritable ==
    /\ Len(queue) < MaxPending
    /\ queue' = logAsync(queue, QueuedEntry(0, "HEAD"), FALSE)
    /\ UNCHANGED <<users, perms, lastCheck, crit, auxVars>>
    /\ UNCHANGED <<req, audit, pendingSync, isProcessing, batch, logs, lost>>

NextFlush ==
    \/ EnqueueUnwritable
    \/ Len(queue) < MaxPending /\ EnqueueEntry(MaxWritable, "GET")
    \/ flush.pc # "drain" /\ Tick
    \/ \E dbOk \in BOOLEAN : DrainWrite(dbOk) /\ UNCHANGED attempts
    \/ FlushStart
    \/ FlushLoop
    \/ FlushResume
    \/ \E spent \in {0, ConnectionTimeoutMs} : FlushSleep(spent)

\* Every db.run settles and the timers of flush fire; nothing is assumed of
\* the interval timer or of the arrival of entries.
SpecFlush ==
    /\ InitAccess /\ [][NextFlush]_vars
    /\ WF_vars(\E dbOk \in BOOLEAN : DrainWrite(dbOk) /\ UNCHANGED attempts)
    /\ WF_vars(FlushLoop)
    /\ WF_vars(FlushResume)
    /\ WF_vars(\E spent \in {0, ConnectionTimeoutMs} : FlushSleep(spent))

\* The worker under every caller: entries of GET requests, whose writes
\* succeed or fail, and of HEAD requests arrive at any time; the timer ticks;
\* flush is called; a drain can end through its catch block.
MaxEntries == 2
NextWorker ==
    \/ \E method \in {"GET", "HEAD"} : EnqueueEntry(MaxEntries, method)
    \/ flush.pc # "drain" /\ Tick
    \/ \E dbOk \in BOOLEAN : Attempt(dbOk)
    \/ DrainThrows
    \/ FlushStart
    \/ FlushLoop
    \/ FlushResume
    \/ \E spent \in {0, ConnectionTimeoutMs} : FlushSleep(spent)

SpecWorker == InitAccess /\ [][NextWorker]_vars

\* Retention: entries are written while the clock moves through the days
\* around the start and around one retention period later, and
\* deleteOldLogs runs at any time.
MaxDayOffset == 2
MaxRows == 3
ClockDays == {d + k * RETENTION_DAYS : d \in 0..MaxDayOffset, k \in 0..1}

ClockAdvance(day) ==
    /\ day \in ClockDays
    /\ day > now
    /\ now' = day
    /\ UNCHANGED <<users, perms, lastCheck, crit, extVars, san, calls, flush, cleanup, attempts>>
    /\ UNCHANGED auditVars

\* An audit write succeeds: INSERT ... VALUES (..., NOW()).
WriteLogRow ==
    /\ Len(logs) < MaxRows
    /\ logs' = Append(logs, Stamped(ToRow(QueuedEntry(0, "GET")), now))
    /\ UNCHANGED <<users, perms, lastCheck, crit, auxVars>>
    /\ UNCHANGED <<req, audit, pendingSync, queue, isProcessing, batch, lost>>

NextRetention ==
    \/ \E day \in ClockDays : ClockAdvance(day)
    \/ WriteLogRow
    \/ CleanupStart
    \/ CleanupCount
    \/ CleanupDelete

SpecRetention == InitAccess /\ [][NextRetention]_vars

\* The cleanup job over MaxDays midnights, with rows written in between and
\* statements of deleteOldLogs that succeed or are rejected.
MaxDays == 4
NextSchedule ==
    \/ DayPasses(MaxDays)
    \/ WriteLogRow
    \/ TimerFire
    \/ CleanupCount
    \/ CleanupDelete
    \/ CleanupFail
    \/ TimerSettle

\* The clock advances, timers fire when due, and every statement settles.
SpecSchedule ==
    /\ InitAccess /\ [][NextSchedule]_vars
    /\ WF_vars(DayPasses(MaxDays))
    /\ WF_vars(TimerFire)
    /\ WF_vars(CleanupCount \/ CleanupDelete \/ CleanupFail)
    /\ WF_vars(TimerSettle)

\* The sanitizer as a function: one call of sanitizePayload per behaviour on
\* a value tree of bounded depth.
MaxDepth == 3
SanKeys == {K_password, K_Api_Key, K_userToken, K_name, K_key}
SanLeaves == {Str("x"), Null}
RECURSIVE SanValues(_)
SanValues(d) ==
    IF d = 0 THEN SanLeaves
    ELSE LET V == SanValues(d - 1)
         IN  SanLeaves
             \cup {Obj(<< <<k, v>> >>) : k \in SanKeys, v \in V}
             \cup {Obj(<< <<K_name, Str("x")>>, <<k, v>> >>) :
                        k \in SanKeys \ {K_name}, v \in V}
             \cup {Arr(<<v>>) : v \in V}
             \cup {Arr(<<Str("x"), v>>) : v \in V}

Sanitize(data) ==
    san' = [called |-> TRUE, input |-> data, output |-> sanitizePayload(data)]

NextSanitize ==
    /\ ~san.called
    /\ \E data \in SanValues(MaxDepth) : Sanitize(data)
    /\ UNCHANGED <<users, perms, lastCheck, crit, extVars, calls, flush, now, cleanup, attempts>>
    /\ UNCHANGED auditVars

SpecSanitize == InitAccess /\ [][NextSanitize]_vars

\* Cycle removal as a function: one call per behaviour of
\* removeCircularReferences followed by sanitizePayload (the two steps of
\* sanitizeLogData) on the object with identity 1 of a bounded heap, in
\* which every slot holds a string or a reference to any object, itself
\* included.
MaxObjects == 3
ObjectIds == 1..MaxObjects
SlotValues == {Str("x")} \cup {Ref(id) : id \in ObjectIds}
HeapNodes ==
    {Obj(<< <<K_name, a>> >>) : a \in SlotValues}
    \cup {Obj(<< <<K_name, a>>, <<K_items, b>> >>) : a \in SlotValues, b \in SlotValues}
    \cup {Arr(<<a>>) : a \in SlotValues}
    \cup {Arr(<<a, b>>) : a \in SlotValues, b \in SlotValues}
Heaps == [ObjectIds -> HeapNodes]

\* The frames the traversal may nest: one per object and one for a leaf.
DetectFuel == MaxObjects + 1

RemoveCycles(heap) ==
    \E d \in {detect(heap, Ref(1), {}, DetectFuel)} :
        san' = [called |-> TRUE, heap |-> heap, ok |-> d.ok,
                output |-> IF d.ok THEN sanitizePayload(d.val) ELSE Undefined]

NextCycles ==
    /\ ~san.called
    /\ \E heap \in Heaps : RemoveCycles(heap)
    /\ UNCHANGED <<users, perms, lastCheck, crit, extVars, calls, flush, now, cleanup, attempts>>
    /\ UNCHANGED auditVars

SpecCycles == InitAccess /\ [][NextCycles]_vars

\* Export: one request per behaviour, over match counts from zero upwards
\* and on both sides of the limit.
MaxNear == 20
MatchCounts ==
    (0..MaxNear) \cup ((ExportLimit - MaxNear)..(ExportLimit + MaxNear))

NextExport ==
    \/ \E matching \in MatchCounts, format \in ExportFormats :
          ExportRequest(matching, format)
    \/ \E dbError \in BOOLEAN : ExportSelect(dbError)
    \/ ExportRespond

SpecExport == InitAccess /\ [][NextExport]_vars

-----------------------------------------------------------------------------
(* Properties.                                                             *)

\* The ordering read < write < admin, written out pair by pair: the pairs
\* <<stored, required>> in which the stored level is at least the required.
C1_AtLeast ==
    {<<"read", "read">>,
     <<"write", "read">>, <<"write", "write">>,
     <<"admin", "read">>, <<"admin", "write">>, <<"admin", "admin">>}

C3_FailsClosedOnUnknownLevel ==
    (lastCheck.called
        /\ (lastCheck.requiredLevel \notin Levels
              \/ lastCheck.stored \notin Levels))
       => ~lastCheck.result

\* The requests whose token verified and whose gate has decided.
C2_Decided(r) == req[r].tok = "valid" /\ req[r].pc \notin {"idle", "gate"}

\* C2: for an authenticated actor the gate calls the downstream handler
\* exactly when hasModuleAccess(actor, module, level) answered true;
\* otherwise it answers 403 with the error object {message, statusCode,
\* timestamp, path, method} and the handler is never invoked.  An actor
\* holding only finance:write is denied on a gate requiring finance:admin
\* and allowed on one requiring finance:read.
C2_GatePassesIffAccess ==
    /\ [](\A r \in ReqIds :
            C2_Decided(r) =>
               /\ req[r].handled <=> (req[r].lookup = "true")
               /\ (req[r].lookup # "true") =>
                     /\ req[r].status = 403
                     /\ DOMAIN req[r].error =
                           {"message", "statusCode", "timestamp", "path",
                            "method"}
                     /\ req[r].error.statusCode = 403)
    /\ [][\A r \in ReqIds :
            (req[r].pc = "gate" /\ req'[r].pc # "gate") =>
               LET module == GateModule(Endpoint(req[r].ep).mount)
                   held == SelectPermission(perms, req[r].actor, module)
               IN  /\ (req'[r].lookup = "true")
                         <=> /\ req'[r].lookup # "failed"
                             /\ hasModuleAccess(perms, req[r].actor, module,
                                                req[r].level, FALSE)
                   /\ (/\ module = "finance"
                       /\ held # NoRow
                       /\ held.access_level = "write"
                       /\ req'[r].lookup # "failed")
                         => IF req[r].level = "admin"
                            THEN req'[r].status = 403 /\ ~req'[r].handled
                            ELSE req'[r].handled]_vars

\* C2 witness: the holder of finance:write has been denied on the finance
\* gate built with 'admin' and let through on the one built with 'read'.
C2_Witness ==
    \E r1, r2 \in ReqIds :
        /\ req[r1].actor = 2 /\ req[r1].ep = "view" /\ req[r1].level = "admin"
        /\ req[r1].status = 403 /\ ~req[r1].handled
        /\ req[r1].lookup = "false"
        /\ req[r2].actor = 2 /\ req[r2].ep = "view" /\ req[r2].level = "read"
        /\ req[r2].handled /\ req[r2].status = 200

\* Every audit entry of request r that is outstanding, queued or persisted,
\* or that was given up.
C4_EntriesOf(r) ==
    {w.row : w \in {x \in pendingSync : x.row.rid = r}}
       \cup {queue[i].logData : i \in {j \in 1..Len(queue) : queue[j].logData.rid = r}}
       \cup {batch[i].logData : i \in {j \in 1..Len(batch) : batch[j].logData.rid = r}}
       \cup {logs[i] : i \in {j \in 1..Len(logs) : logs[j].rid = r}}
       \cup {row \in lost : row.rid = r}

C5_Dispatched(r) ==
    {w.row : w \in {x \in pendingSync' : x.row.rid = r /\ x.row.src = "mw"}}
       \cup {queue'[i].logData :
                i \in {j \in 1..Len(queue') : queue'[j].logData.rid = r}}

\* C5: every request of an authenticated actor that is answered has an audit
\* entry built and dispatched for it at the moment of the answer, whatever
\* the outcome: a 403 of the gate is recorded with response_status 403, and
\* a handled request is recorded whether the handler succeeded or failed.
C5_EveryResponseAudited ==
    /\ [](\A r \in ReqIds :
             (req[r].tok = "valid" /\ req[r].pc \in {"sent", "done"})
                => (req[r].logged /\ audit[r] # {}))
    /\ [][\A r \in ReqIds :
             (/\ req[r].tok = "valid"
              /\ req[r].pc \notin {"sent", "done"}
              /\ req'[r].pc \in {"sent", "done"})
                => \E e \in C5_Dispatched(r) :
                      /\ e.user_id = req[r].actor
                      /\ e.response_status = req'[r].status
                      /\ e.http_method = Endpoint(req[r].ep).method
                      /\ (~req'[r].handled => e.response_status = 403)]_vars

\* C5 witness: a request refused by the gate and a request whose handler
\* failed have both been answered and both have an entry dispatched.
C5_Witness ==
    \E r1, r2 \in ReqIds :
        /\ req[r1].pc = "done" /\ req[r1].status = 403 /\ audit[r1] # {}
        /\ req[r2].pc = "done" /\ req[r2].handled /\ req[r2].status = 500
        /\ audit[r2] # {}

\* C6: every entry the middleware dispatches takes exactly one path: logSync
\* when isCriticalAction(method, path) is true, the queue otherwise.  No
\* request has its entry both written synchronously and enqueued, nothing
\* critical is in the queue, and nothing routine is with the sync writer.
C6_ExactlyOnePath ==
    /\ \A r \in ReqIds : audit[r] \in {{}, {"sync"}, {"async"}}
    /\ \A i \in 1..Len(queue) :
          /\ queue[i].logData.src = "mw"
          /\ ~isCriticalAction(queue[i].logData.http_method,
                               queue[i].logData.endpoint_path)
          /\ audit[queue[i].logData.rid] = {"async"}
    /\ \A w \in pendingSync :
          w.row.src = "mw" =>
             /\ isCriticalAction(w.row.http_method, w.row.endpoint_path)
             /\ audit[w.row.rid] = {"sync"}
    /\ \A r \in ReqIds :
          ~(/\ \E w \in pendingSync : w.row.rid = r /\ w.row.src = "mw"
            /\ \E i \in 1..Len(queue) : queue[i].logData.rid = r)

\* C6 witness: one request's entry is with the sync writer while another
\* request's entry sits in the queue.
C6_Witness ==
    \E r1, r2 \in ReqIds :
        /\ audit[r1] = {"sync"} /\ audit[r2] = {"async"}
        /\ \E w \in pendingSync : w.row.rid = r1 /\ w.row.src = "mw"
        /\ \E i \in 1..Len(queue) : queue[i].logData.rid = r2

\* The classification as the specification words it, on the segments of a
\* path: an authentication endpoint (a segment "auth" with more path behind
\* it), a DELETE, a request that changes a permission (a mutating method on
\* a path with a "permissions" segment), or a request that creates or
\* updates a user (POST, PUT or PATCH on a path with a "users" segment).
C7_Stated(method, segs) ==
    \/ \E i \in 1..(Len(segs) - 1) : segs[i] = Seg_auth
    \/ method = "DELETE"
    \/ /\ method \in {"POST", "PUT", "PATCH", "DELETE"}
       /\ \E i \in 1..Len(segs) : segs[i] = Seg_permissions
    \/ /\ method \in {"POST", "PUT", "PATCH"}
       /\ \E i \in 1..Len(segs) : segs[i] = Seg_users

\* C7 (as the specification states it): isCriticalAction(method, path) is
\* true exactly for authentication endpoints, DELETE requests, requests that
\* mutate a permission and requests that create or update a user, and false
\* for every other method and path.
C7_CriticalExactlyAsStated ==
    crit.called => (crit.result <=> C7_Stated(crit.method, crit.segs))

\* C8 (as the specification states it): once the response of a request has
\* been sent, no synchronous audit write of that request is still
\* outstanding.
C8_SyncWriteBeforeResponse ==
    \A r \in ReqIds :
        req[r].pc \in {"sent", "done"}
           => ~(\E w \in pendingSync : w.row.rid = r)

\* The positions in admin_user_logs of the 'delete' rows of request r.
C9_DeleteRows(r) ==
    {i \in 1..Len(logs) : logs[i].rid = r /\ logs[i].action_type = "delete"}

\* C9 (as the specification states it): a DELETE of a user that succeeded,
\* and none of whose audit writes failed or is still outstanding, has
\* exactly one persisted 'delete' row, and that row has a before_state.
C9_ExactlyOneDeleteEntry ==
    \A r \in ReqIds :
        (/\ req[r].ep = "deleteUser" /\ req[r].handled /\ req[r].status = 200
         /\ req[r].pc = "done"
         /\ ~(\E w \in pendingSync : w.row.rid = r)
         /\ ~(\E row \in lost : row.rid = r))
           => /\ Cardinality(C9_DeleteRows(r)) = 1
              /\ \A i \in C9_DeleteRows(r) : logs[i].before_state # Null

\* Whether a value holds, at any depth, a property whose key matches the
\* sensitive vocabulary and whose value is not the redaction marker.
RECURSIVE C10_Unredacted(_)
C10_Unredacted(x) ==
    CASE x.t = "obj" ->
           \E i \in 1..Len(x.v) :
               \/ IsSensitive(x.v[i][1]) /\ x.v[i][2] # REDACTED
               \/ C10_Unredacted(x.v[i][2])
      [] x.t = "arr" -> \E i \in 1..Len(x.v) : C10_Unredacted(x.v[i])
      [] OTHER -> FALSE

\* C10 (as the specification states it): no persisted row holds, in
\* request_payload, before_state or after_state, an unredacted value under
\* a sensitive key at any depth.
C10_PersistedRowsSanitized ==
    \A i \in 1..Len(logs) :
        \A f \in PayloadFields : ~C10_Unredacted(logs[i][f])

\* Notions used in the statement of C11 below.
C11_Matches(key) ==
    \E i \in 1..Len(SENSITIVE_FIELDS) :
        Includes(StripSeparators(ToLowerCase(key)), SENSITIVE_FIELDS[i])

RECURSIVE C11_Redacts(_, _)
C11_Redacts(in, out) ==
    IF in.t = "arr"
    THEN /\ out.t = "arr"
         /\ Len(out.v) = Len(in.v)
         /\ \A i \in 1..Len(in.v) : C11_Redacts(in.v[i], out.v[i])
    ELSE IF in.t = "obj"
    THEN /\ out.t = "obj"
         /\ Len(out.v) = Len(in.v)
         /\ \A i \in 1..Len(in.v) :
                /\ out.v[i][1] = in.v[i][1]
                /\ C11_Matches(in.v[i][1]) => out.v[i][2] = REDACTED
                /\ ~C11_Matches(in.v[i][1])
                      => \/ out.v[i][2] = REDACTED
                         \/ C11_Redacts(in.v[i][2], out.v[i][2])
    ELSE TRUE

\* C11: in the output of sanitizePayload every map entry of the input whose
\* normalised key (lowercased, '_' and '-' stripped) contains a word of the
\* sensitive vocabulary carries the marker '[REDACTED]', at any depth and
\* also inside arrays; the other entries keep their key and position, and
\* carry either the marker themselves or their value redacted in the same
\* way.
C11_SensitiveEntriesRedacted ==
    san.called => C11_Redacts(san.input, san.output)

\* A call whose input holds 'Api_Key' in a map inside an array inside a map.
C11_Witness ==
    /\ san.called
    /\ san.input =
          Obj(<< <<K_name, Arr(<<Str("x"), Obj(<< <<K_Api_Key, Str("x")>> >>)>>)>> >>)
    /\ san.output =
          Obj(<< <<K_name, Arr(<<Str("x"), Obj(<< <<K_Api_Key, REDACTED>> >>)>>)>> >>)

\* Notions used in the statement of C12 below.
RECURSIVE C12_Cut(_, _, _, _)
C12_Cut(heap, x, path, out) ==
    IF x.t # "ref" THEN out = x
    ELSE IF out = CIRCULAR THEN TRUE
    ELSE /\ x.v \notin path
         /\ out.t = heap[x.v].t
         /\ Len(out.v) = Len(heap[x.v].v)
         /\ \A i \in 1..Len(out.v) :
                IF out.t = "arr"
                THEN C12_Cut(heap, heap[x.v].v[i], path \cup {x.v}, out.v[i])
                ELSE /\ out.v[i][1] = heap[x.v].v[i][1]
                     /\ C12_Cut(heap, heap[x.v].v[i][2], path \cup {x.v},
                                 out.v[i][2])

\* C12: sanitizing a self-referential structure terminates within one
\* traversal frame per object (plus one for a leaf), and its output is a
\* finite tree: following the input from the root, the first time a
\* reference leads back to an object on the current path the output holds
\* the marker '[Circular Reference]' there, for a direct self-reference
\* and for cycles through any number of maps and arrays.
C12_CyclesCutAtRepeatedReference ==
    (san.called /\ "heap" \in DOMAIN san)
        => /\ san.ok
           /\ C12_Cut(san.heap, Ref(1), {}, san.output)

\* A call on a cycle through an array and a second map: object 1 holds the
\* array 2, which holds the map 3, which holds object 1.
C12_Witness ==
    /\ san.called /\ "heap" \in DOMAIN san
    /\ san.heap[1] = Obj(<< <<K_name, Ref(2)>> >>)
    /\ san.heap[2] = Arr(<<Ref(3)>>)
    /\ san.heap[3] = Obj(<< <<K_name, Ref(1)>> >>)
    /\ san.output =
          Obj(<< <<K_name, Arr(<<Obj(<< <<K_name, CIRCULAR>> >>)>>)>> >>)

\* Notions used in the statement of C13 below.
C13_InQueue(n) == \E i \in 1..Len(queue) : queue[i].logData.rid = n
C13_Persisted(n) == \E i \in 1..Len(logs) : logs[i].rid = n
C13_Lost(n) == \E row \in lost : row.rid = n
C13_Enqueued(n) == n <= Len(attempts)
C13_Attempted(n) == n <= Len(attempts) /\ attempts[n] >= 1
C13_GivenUp(n) ==
    n <= Len(attempts) /\ C13_Lost(n) /\ attempts[n] = MAX_RETRIES
C13_Unwritable(n) ==
    \E i \in 1..Len(queue) :
        queue[i].logData.rid = n /\ queue[i].logData.action_type = "unknown"

C13_Counts ==
    \A n \in 1..Len(attempts) :
        /\ C13_Lost(n) => attempts[n] = MAX_RETRIES /\ ~C13_InQueue(n)
                               /\ ~C13_Persisted(n)
        /\ C13_Persisted(n) => attempts[n] \in 1..MAX_RETRIES /\ ~C13_InQueue(n)
        /\ C13_InQueue(n) =>
              \E i \in 1..Len(queue) :
                  /\ queue[i].logData.rid = n
                  /\ queue[i].retryCount = attempts[n]
                  /\ attempts[n] < MAX_RETRIES
        /\ C13_InQueue(n) \/ C13_Persisted(n) \/ C13_Lost(n)

C13_FailedStep ==
    \A n \in 1..Len(attempts) :
        (attempts'[n] = attempts[n] + 1 /\ ~C13_Persisted(n)')
            => IF attempts'[n] < MAX_RETRIES
               THEN /\ Len(queue') = Len(queue)
                    /\ queue'[Len(queue')].logData.rid = n
                    /\ queue'[Len(queue')].retryCount = attempts'[n]
               ELSE ~C13_InQueue(n)' /\ C13_Lost(n)'

\* C13: an entry of the queue is written at most MAX_RETRIES = 3 times.  A
\* failed write that leaves its retryCount below 3 moves it to the tail of
\* the queue; the third failed write removes it, and an entry is given up
\* only after exactly 3 failed writes.  An entry that can never be written
\* (action type 'unknown') therefore leaves the queue after 3 attempts, and
\* it does not block the others: every entry enqueued is attempted and ends
\* up persisted or given up, and one whose write succeeds is persisted.
C13_ThreeAttemptsThenDropped ==
    /\ []C13_Counts
    /\ [][C13_FailedStep]_vars
    /\ \A n \in 1..MaxQueued :
          /\ C13_Enqueued(n) ~> C13_Attempted(n)
          /\ C13_Enqueued(n) ~> (C13_Persisted(n) \/ C13_Lost(n))
          /\ C13_Unwritable(n) ~> C13_GivenUp(n)

\* The entry of a HEAD request, enqueued first, has been given up after three
\* attempts and the entry enqueued behind it is persisted.
C13_Witness ==
    /\ Len(attempts) >= 2
    /\ attempts[1] = MAX_RETRIES
    /\ \E row \in lost : row.rid = 1 /\ row.action_type = "unknown"
    /\ \E i \in 1..Len(logs) : logs[i].rid = 2

\* Notions used in the statement of C14 below.
C14_NoneLost ==
    /\ lost = {}
    /\ \A n \in 1..Len(attempts) :
          /\ C13_InQueue(n) # C13_Persisted(n)
          /\ Cardinality({i \in 1..Len(logs) : logs[i].rid = n}) <= 1
    /\ Len(batch) <= BATCH_SIZE

C14_BatchPerTick ==
    /\ Len(logs') > Len(logs)
          => isProcessing /\ Len(logs') + Len(batch') = Len(logs) + Len(batch)
    /\ batch' # batch /\ ~isProcessing
          => logs' = logs /\ Len(batch') <= BATCH_SIZE
    /\ (~isProcessing /\ Len(queue) = BurstSize /\ isProcessing')
          => Len(batch') = BATCH_SIZE /\ Len(queue') - Len(batch') > BATCH_SIZE

\* C14: when no write fails and the timer keeps ticking, every entry
\* enqueued is eventually persisted, exactly once, and none is given up or
\* missing in the meantime.  One tick cuts a batch of at most BATCH_SIZE = 10
\* entries and only that batch is written before the next tick, so 25
\* entries enqueued together need three ticks.
C14_AllEventuallyPersisted ==
    /\ []C14_NoneLost
    /\ [][C14_BatchPerTick]_vars
    /\ \A n \in 1..BurstSize : C13_Enqueued(n) ~> C13_Persisted(n)
    /\ (Len(attempts) = BurstSize) ~> (Len(logs) = BurstSize /\ queue = <<>>)

\* All 25 entries were enqueued before the first tick, whose drain has
\* ended with 10 rows persisted and 15 entries still queued.
C14_Witness ==
    /\ Len(attempts) = BurstSize
    /\ ~isProcessing
    /\ Len(logs) = BATCH_SIZE
    /\ Len(queue) = BurstSize - BATCH_SIZE
    /\ lost = {}

\* Notions used in the statement of C15 below.
C15_Decided(r) ==
    LET e == Endpoint(req[r].ep)
        failed(message) == <<500, ErrorBody(message, 500, e.path, e.method)>>
    IN  CASE req[r].pc = "gate" ->
               {<<403, ErrorBody(<<"Insufficient permissions",
                                   GateModule(e.mount), req[r].level>>,
                                 403, e.path, e.method)>>}
          [] req[r].pc = "handler" /\ e.handler = "finance" ->
               {<<200, NoError>>,
                failed("Failed to retrieve collections metrics")}
          [] req[r].pc = "handler" /\ e.handler = "aiAgents" ->
               {<<200, NoError>>,
                <<500, errorHandler(createError("upstream", 500), req[r].ep)>>}
          [] req[r].pc \in {"handler", "deleting"} /\ e.handler = "deleteUser" ->
               {failed("Failed to delete user")}
          [] req[r].pc = "awaitLog" -> {<<200, NoError>>}
          [] OTHER -> {}

C15_Step ==
    /\ \A r \in ReqIds :
          (req[r].pc \notin {"idle", "sent", "done"} /\ req'[r].pc = "sent")
              => <<req'[r].status, req'[r].error>> \in C15_Decided(r)
    /\ \A r \in ReqIds :
          (req[r].pc \in {"sent", "done"})
              => /\ req'[r].status = req[r].status
                 /\ req'[r].error = req[r].error
    /\ lost' # lost
          => \A r \in ReqIds : req'[r] = req[r] \/ req[r].pc = "awaitLog"
    /\ (isProcessing /\ batch' # batch) => req' = req

\* C15: no failure of the audit pipeline changes a response.  The status and
\* body a request is answered with are those its gate or handler decided,
\* whether or not the sanitizer raised while the entry was handed over; a
\* failed audit write (synchronous or queued) changes no request, except
\* that the handler awaiting it goes on to answer 200 as it does after a
\* successful write; and the queue worker never touches a request.
C15_AuditFailureNeverChangesResponse == [][C15_Step]_vars

\* A deletion answered 200 with the success body although the audit write
\* its handler awaited failed.
C15_Witness ==
    \E r \in ReqIds :
        /\ req[r].pc \in {"sent", "done"}
        /\ req[r].status = 200
        /\ req[r].error = NoError
        /\ \E row \in lost : row.rid = r /\ row.src = "svc"

\* Notions used in the statement of C16 below.
C16_RowsOf(store, userId, module) ==
    {p \in store : p.user_id = userId /\ p.module = module}

C16_AtMostOneRow ==
    \A u \in UserIds, m \in Modules : Cardinality(C16_RowsOf(perms, u, m)) <= 1

C16_GrantStep ==
    \A c \in CallIds :
        (calls[c].pc = "write" /\ calls'[c].pc = "reread")
            => /\ C16_RowsOf(perms', calls[c].userId, calls[c].module) =
                     {[user_id |-> calls[c].userId, module |-> calls[c].module,
                       access_level |-> calls[c].accessLevel,
                       granted_by |-> calls[c].by]}
               /\ perms' \ C16_RowsOf(perms', calls[c].userId, calls[c].module)
                     = perms \ C16_RowsOf(perms, calls[c].userId, calls[c].module)

\* C16: the permission store never holds two rows for one (user, module),
\* whatever grants and revokes have run and however they interleave; and the
\* upsert of a grant leaves exactly one row for its pair, carrying the level
\* and granted_by of that grant, whether or not a row existed before, and
\* leaves the rows of every other pair as they were.
C16_OneRowPerPairLatestGrant ==
    []C16_AtMostOneRow /\ [][C16_GrantStep]_vars

\* Two grants of finance to user 2, the second made after the first had
\* returned, with another level and another grantor: one row, the second's.
C16_Witness ==
    /\ calls[1].op = "grant" /\ calls[2].op = "grant"
    /\ calls[1].userId = 2 /\ calls[2].userId = 2
    /\ calls[1].accessLevel = "read" /\ calls[1].by = 1
    /\ calls[2].accessLevel = "admin" /\ calls[2].by = 2
    /\ 1 \in calls[2].startedAfter
    /\ calls[2].pc = "done"
    /\ calls[2].before # NoRow
    /\ perms = {[user_id |-> 2, module |-> "finance",
                 access_level |-> "admin", granted_by |-> 2]}

\* Notions used in the statement of C17 below.
C17_RevokeStep ==
    \A c \in CallIds, g \in CallIds :
        (/\ calls[c].op = "revoke"
         /\ calls[c].pc = "write" /\ calls'[c].pc = "awaitLog"
         /\ g \in calls[c].startedAfter
         /\ calls[g].op = "grant"
         /\ calls[g].userId = calls[c].userId
         /\ calls[g].module = calls[c].module)
            => \A level \in LevelStrings :
                   ~hasModuleAccess(perms', calls[c].userId, calls[c].module,
                                    level, FALSE)

\* C17: right after the DELETE of a revoke that was called once a grant for
\* the same (user, module) had returned, hasModuleAccess(user, module, level)
\* is false for every level string, in the scale or not, whatever row the
\* pair had before the grant and whatever level was granted.
C17_NoAccessAfterGrantThenRevoke == [][C17_RevokeStep]_vars

\* User 2 held finance:write, was granted finance:admin, and the revoke
\* called afterwards has read that row and deleted it.
C17_Witness ==
    /\ calls[1].op = "grant" /\ calls[1].userId = 2
    /\ calls[1].accessLevel = "admin"
    /\ calls[1].before # NoRow /\ calls[1].before.access_level = "write"
    /\ calls[2].op = "revoke" /\ calls[2].userId = 2
    /\ 1 \in calls[2].startedAfter
    /\ calls[2].pc \in {"awaitLog", "done"}
    /\ calls[2].before # NoRow /\ calls[2].before.access_level = "admin"
    /\ \A level \in LevelStrings :
          ~hasModuleAccess(perms, 2, "finance", level, FALSE)

\* Notions used in the statement of C18 below.
C18_Interleaved(c, d) ==
    /\ c # d
    /\ calls[c].op = "grant" /\ calls[d].op = "grant"
    /\ calls[c].userId = calls[d].userId /\ calls[c].module = calls[d].module
    /\ calls[c].pc = "done" /\ calls[d].pc = "done"
    /\ c \notin calls[d].startedAfter /\ d \notin calls[c].startedAfter

\* C18: two grants for the same (user, module) whose statements interleave
\* both return, and the store then holds exactly one row for the pair, with
\* the level one of the grants asked for (no revoke of the pair being
\* involved).
C18_InterleavedGrantsOneRow ==
    \A c \in CallIds, d \in CallIds :
        (/\ C18_Interleaved(c, d)
         /\ ~\E e \in CallIds : /\ calls[e].op = "revoke"
                                 /\ calls[e].userId = calls[c].userId
                                 /\ calls[e].module = calls[c].module)
            => /\ Cardinality(C16_RowsOf(perms, calls[c].userId,
                                         calls[c].module)) = 1
               /\ \E p \in C16_RowsOf(perms, calls[c].userId, calls[c].module),
                     g \in CallIds :
                       /\ calls[g].op = "grant"
                       /\ calls[g].userId = p.user_id
                       /\ calls[g].module = p.module
                       /\ calls[g].accessLevel = p.access_level
                       /\ calls[g].by = p.granted_by

\* Both grants read an empty store before either wrote; the first to write
\* re-read the row of the second.
C18_Witness ==
    /\ C18_Interleaved(1, 2)
    /\ calls[1].before = NoRow /\ calls[2].before = NoRow
    /\ calls[1].accessLevel = "read" /\ calls[2].accessLevel = "admin"
    /\ calls[1].after # NoRow /\ calls[1].after.access_level = "admin"
    /\ Cardinality(perms) = 1

\* Notions used in the statement of C19 below.
C19_ReturnedWhenDue ==
    flush.pc = "returned"
        => /\ flush.remaining = 0 \/ flush.elapsed >= maxFlushTime
           /\ flush.remaining <= MaxPending

C19_ReturnStep ==
    (flush.pc # "returned" /\ flush'.pc = "returned")
        => /\ flush'.remaining = Len(queue)
           /\ queue' = queue

\* C19: a flush that has been called returns: it leaves its loop when the
\* queue is empty or when 5000 ms have elapsed since its start, and then
\* reports the number of entries still queued.  This holds when writes
\* fail, when a drain started by the timer is running as flush starts, and
\* when entries keep arriving.
C19_FlushTerminates ==
    /\ []C19_ReturnedWhenDue
    /\ [][C19_ReturnStep]_vars
    /\ (flush.pc # "idle") ~> (flush.pc = "returned")

\* A flush that started while a timer-driven drain was running has returned
\* at the deadline with entries still queued, after writes had failed for
\* good.
C19_Witness ==
    /\ flush.pc = "returned"
    /\ flush.busyAtStart
    /\ flush.elapsed >= maxFlushTime
    /\ flush.remaining > 0
    /\ lost # {}

\* Notions used in the statement of C20 below.
C20_DeleteStep ==
    /\ \A i \in 1..Len(logs) :
          (logs[i].created_at >= cleanup.startedAt - RETENTION_DAYS)
              => \E j \in 1..Len(logs') : logs'[j] = logs[i]
    /\ (cleanup.pc = "delete" /\ cleanup'.pc = "returned")
          => /\ logs' = SelectSeq(logs, LAMBDA row :
                            row.created_at >= cleanup.startedAt - RETENTION_DAYS)
             /\ cleanup'.removed = Len(logs) - Len(logs')

C20_SecondRunReturnsZero ==
    (cleanup.pc = "returned" /\ cleanup.lastRunAt = cleanup.startedAt)
        => cleanup.removed = 0 /\ cleanup.result = Num(0)

\* The part about the rows, on its own.
C20_OnlyExpiredRemoved == [][C20_DeleteStep]_vars

\* The second run as far as the rows and the numeric value go: no row is
\* removed and what is returned reads zero, as the number 0 or as '0'.
C20_SecondRunRemovesNothing ==
    (cleanup.pc = "returned" /\ cleanup.lastRunAt = cleanup.startedAt)
        => cleanup.removed = 0 /\ cleanup.result \in {Num(0), Str("0")}

\* C20: the DELETE of a retention run removes exactly the rows whose
\* created_at is strictly smaller than the run's start minus 365 days and
\* leaves every other row as it was; and a run started right after another
\* has returned, with the clock unchanged, removes no row and returns the
\* number 0.
C20_RemovesOnlyExpiredAndSecondRunZero ==
    [][C20_DeleteStep]_vars /\ []C20_SecondRunReturnsZero


\* Notions used in the statement of C21 below.
C21_Kept(row) == \E j \in 1..Len(logs') : logs'[j] = row

C21_Step ==
    \A i \in 1..Len(logs) :
        \/ C21_Kept(logs[i])
        \/ /\ cleanup.pc = "delete" /\ cleanup'.pc = "returned"
           /\ logs[i].created_at < cleanup.startedAt - RETENTION_DAYS

\* C21: a persisted row of admin_user_logs is in the table, unchanged, after
\* every step of the system, except a row older than 365 days that the
\* retention run's DELETE removes: no request, grant, revoke or user deletion
\* removes or changes a persisted audit row.
C21_PersistedEntriesImmutable == [][C21_Step]_vars


\* Notions used in the statement of C22 below.
C22_Answered == export.pc = "answered" /\ ~export.dbError

\* The first half on its own: no answer carries more than 10,000 rows.
C22_NeverMoreThanCap == C22_Answered => export.returned <= 10000

\* The second half below the cap: fewer than 10,000 matching rows are all
\* returned with status 200.
C22_BelowCapReturnsAll ==
    (C22_Answered /\ export.matching < 10000)
        => export.status = 200 /\ export.returned = export.matching

\* C22: an export whose query succeeded never returns more than 10,000
\* rows, and when its filters match at most 10,000 rows, exactly 10,000
\* included, it is answered 200 with all of the matching rows.
C22_ExportCapInclusive ==
    C22_Answered
        => /\ export.returned <= 10000
           /\ export.matching <= 10000
                 => export.status = 200 /\ export.returned = export.matching


\* Notions used in the statement of C23 below.
C23_UnknownCall(c) ==
    calls[c].pc = "idle" /\ calls'[c].pc \notin {"idle", "refused"}
        /\ calls'[c].userId \notin users

C23_UnknownAnswer(c) ==
    answers[c] = 0 /\ answers'[c] # 0 /\ calls'[c].pc # "refused"
        /\ calls'[c].userId \notin users

\* The part about the store: a grant or revoke for a user id without a row
\* in users throws before any statement on user_permissions, and the route's
\* answer changes nothing either.
C23_StoreUnchanged ==
    [][\A c \in CallIds :
          (C23_UnknownCall(c) \/ C23_UnknownAnswer(c))
              => perms' = perms /\ calls'[c].pc = "thrown"]_vars

\* What the routes do answer for an unknown user.
C23_UnknownAnswered500 ==
    [][\A c \in CallIds : C23_UnknownAnswer(c) => answers'[c] = 500]_vars

\* C23: a grant or revoke route call for a user id without a row in users
\* is answered with status 404, and neither the call nor its answer changes
\* user_permissions.
C23_UnknownActorAnswered404 ==
    [][\A c \in CallIds :
          /\ C23_UnknownCall(c) => perms' = perms
          /\ C23_UnknownAnswer(c) => answers'[c] = 404 /\ perms' = perms]_vars


\* Notions used in the statement of C24 below.
C24_DrainSuspended == isProcessing /\ batch # <<>>

\* The awaited write of the drain in progress settles.
C24_WriteSettles == batch' = Tail(batch)

\* enqueue, the only other way the queue changes.
C24_Appended ==
    Len(queue') = Len(queue) + 1 /\ SubSeq(queue', 1, Len(queue)) = queue

C24_Step ==
    C24_DrainSuspended
        => \/ C24_WriteSettles
           \/ /\ batch' = batch /\ isProcessing' = isProcessing
              /\ logs' = logs /\ lost' = lost
              /\ queue' = queue \/ C24_Appended

\* C24: the processing flag is set exactly while a drain is suspended on a
\* write of its batch, so one drain at most is in progress; and while it is,
\* every step other than the settling of that write (a timer tick, a pass of
\* flush, an arrival) cuts no batch, writes and gives up nothing, and removes
\* or moves no queue entry.
C24_SingleFlightDrain ==
    [](isProcessing <=> batch # <<>>) /\ [][C24_Step]_vars

\* flush was called during a drain, its processQueue call returned at once
\* and flush waits on its timer while the drain is still suspended.
C24_Witness ==
    /\ flush.pc = "sleep" /\ flush.busyAtStart /\ flush.elapsed = 0
    /\ C24_DrainSuspended /\ Len(queue) > Len(batch)


\* Notions used in the statement of C25 below.
C25_Rids(seq) == {seq[i].logData.rid : i \in 1..Len(seq)}

\* No write attempt is made in the step: the count of every entry stays.
C25_NoAttempt ==
    /\ Len(attempts') >= Len(attempts)
    /\ \A n \in 1..Len(attempts) : attempts'[n] = attempts[n]

\* The one write attempt of the step is for the entry heading the batch,
\* which then leaves the batch for good and the head of the queue.
C25_AttemptsHead ==
    LET n == Head(batch).logData.rid
    IN  /\ batch' = Tail(batch)
        /\ attempts' = [attempts EXCEPT ![n] = @ + 1]
        /\ n \notin C25_Rids(batch')
        /\ \/ queue' = Tail(queue)
           \/ /\ Len(queue') = Len(queue)
              /\ SubSeq(queue', 1, Len(queue) - 1) = Tail(queue)
              /\ queue'[Len(queue')].logData.rid = n

C25_InDrain ==
    isProcessing
        => /\ Len(batch) <= 10 /\ Len(batch) <= Len(queue)
           /\ batch = SubSeq(queue, 1, Len(batch))
           /\ Cardinality(C25_Rids(batch)) = Len(batch)

C25_Step ==
    /\ (~isProcessing /\ isProcessing')
          => /\ Len(batch') = (IF Len(queue) < 10 THEN Len(queue) ELSE 10)
             /\ \A i \in 1..Len(batch') : batch'[i] = queue[i]
             /\ C25_NoAttempt
    /\ (~isProcessing /\ ~isProcessing') => C25_NoAttempt
    /\ isProcessing
          => \/ C25_AttemptsHead
             \/ /\ batch' = batch /\ C25_NoAttempt
                /\ Len(attempts') \notin C25_Rids(batch')

\* C25: a drain starts by taking the first min(10, queue length) entries of
\* the queue as its batch and attempts nothing else: while it runs the
\* remaining batch holds at most 10 distinct entries and is the head of the
\* queue, every write attempt is for the entry heading the batch, which
\* then leaves the batch, and an entry that arrives or is moved to the tail
\* during the drain is not in the batch.
C25_DrainAttemptsItsBatchOnly == []C25_InDrain /\ [][C25_Step]_vars

\* A drain has ended that left in the queue the eleventh entry, not
\* attempted, and behind it the first entry, whose one write failed; the
\* nine entries between them were written.
C25_Witness ==
    /\ ~isProcessing /\ Len(attempts) = 11 /\ Len(queue) = 2
    /\ queue[1].logData.rid = 11 /\ attempts[11] = 0
    /\ queue[2].logData.rid = 1 /\ queue[2].retryCount = 1 /\ attempts[1] = 1
    /\ \A n \in 2..10 : attempts[n] = 1


\* Notions used in the statement of C26 below.
C26_Settled(w) == w \in pendingSync /\ w \notin pendingSync'

C26_Times(table, row) == Cardinality({i \in 1..Len(table) : table[i] = row})

C26_Queued(q, row) == \E i \in 1..Len(q) : ToRow(q[i].logData) = row

\* The step in which a logSync call ends is its single INSERT: the row is
\* appended to the table, or given up with the table as it was; the row is
\* handed to nobody else; and the handler that awaited the call continues as
\* after a success.  No other step writes or gives up the row of a pending
\* call.
C26_Step ==
    \A w \in pendingSync :
        IF C26_Settled(w)
        THEN /\ \/ logs' = Append(logs, w.row) /\ lost' = lost
                \/ logs' = logs /\ lost' = lost \cup {w.row}
             /\ ~C26_Queued(queue', w.row)
             /\ \A v \in pendingSync' : v.row # w.row
             /\ w.awaiter # 0
                   => /\ req'[w.awaiter].pc = "sent"
                      /\ req'[w.awaiter].status = 200
                      /\ req'[w.awaiter].error = NoError
        ELSE /\ C26_Times(logs', w.row) <= C26_Times(logs, w.row)
             /\ w.row \in lost' => w.row \in lost

\* A row given up is nowhere else, and a row is written once at most.
C26_LostForGood ==
    /\ \A row \in lost :
          /\ C26_Times(logs, row) = 0
          /\ ~C26_Queued(queue, row)
          /\ \A w \in pendingSync : w.row # row
    /\ \A w \in pendingSync : C26_Times(logs, w.row) = 0
    /\ \A i \in 1..Len(logs) : C26_Times(logs, logs[i]) = 1

\* C26: logSync makes one INSERT per entry.  When it fails the entry is
\* given up on the spot: the call ends normally (an awaiting handler goes on
\* to its 200), and the entry is never written later, never pending again
\* and never in the async queue.
C26_SyncWriteOnceNoRetry == []C26_LostForGood /\ [][C26_Step]_vars

\* The middleware's entry of a critical request was given up after its one
\* failed write; the request is over and nothing is pending or queued.
C26_Witness ==
    /\ \E row \in lost : row.src = "mw" /\ row.http_method = "DELETE"
                            /\ req[row.rid].pc = "done"
    /\ pendingSync = {} /\ queue = <<>> /\ ~isProcessing


\* Notions used in the statement of C27 below.
C27_Arrival == Len(attempts') = Len(attempts) + 1

C27_Step ==
    C27_Arrival
        => /\ Len(queue') = Len(queue) + 1
           /\ \A i \in 1..Len(queue) : queue'[i] = queue[i]
           /\ queue'[Len(queue')].retryCount = 0
           /\ queue'[Len(queue')].logData.rid = Len(attempts')
           /\ isProcessing' = isProcessing /\ batch' = batch
           /\ logs' = logs /\ lost' = lost

\* enqueue can be called in every state, whatever the queue holds and
\* whether or not a drain is suspended on a write.
C27_NeverWaits ==
    Len(attempts) < MaxArrivals
        => ENABLED EnqueueEntry(MaxArrivals, "GET")

\* C27: enqueue is never held up, by a drain in progress or by anything
\* else, and its whole effect is one new item with retryCount 0 at the tail
\* of the queue: the items already queued, their order and retry counts,
\* the processing flag, the running batch and the table stay as they were.
C27_EnqueueAppendsOnly == []C27_NeverWaits /\ [][C27_Step]_vars

\* An entry arrived during a drain, behind an entry that the same drain had
\* moved to the tail after a failed write.
C27_Witness ==
    /\ isProcessing /\ Len(queue) >= 2
    /\ queue[Len(queue)].retryCount = 0
    /\ queue[Len(queue)].logData.rid = Len(attempts)
    /\ queue[Len(queue) - 1].retryCount = 1


\* Notions used in the statement of C28 below.
C28_ExitedWithQueue == proc.exited /\ proc.queuedAtSignal > 0

\* What does hold: the process ends with the queue exactly as the signal
\* found it, and flush never started.
C28_QueueDiscarded ==
    C28_ExitedWithQueue
        => Len(queue) = proc.queuedAtSignal /\ flush.pc = "idle"

\* C28: when the process has exited on a signal that found entries in the
\* queue, flush was invoked and had returned before the exit.
C28_FlushBeforeExit ==
    C28_ExitedWithQueue => flush.pc = "returned"


\* Notions used in the statement of C29 below: out is what a traversal
\* gives for x that puts the marker at a reference exactly when the object
\* referred to is on the path from the root, and copies everything else.
RECURSIVE C29_OnPathOnly(_, _, _, _)
C29_OnPathOnly(heap, x, path, out) ==
    IF x.t # "ref" THEN out = x
    ELSE IF x.v \in path THEN out = CIRCULAR
    ELSE /\ out # CIRCULAR
         /\ out.t = heap[x.v].t
         /\ Len(out.v) = Len(heap[x.v].v)
         /\ \A i \in 1..Len(out.v) :
                IF out.t = "arr"
                THEN C29_OnPathOnly(heap, heap[x.v].v[i], path \cup {x.v},
                                    out.v[i])
                ELSE /\ out.v[i][1] = heap[x.v].v[i][1]
                     /\ C29_OnPathOnly(heap, heap[x.v].v[i][2],
                                       path \cup {x.v}, out.v[i][2])

\* C29: in the output of a call the marker '[Circular Reference]' stands
\* exactly where a reference leads to an object that is on the current path
\* from the root; an object referenced from two sibling positions, with no
\* cycle, appears in full at both.
C29_MarkerOnlyOnCurrentPath ==
    (san.called /\ "heap" \in DOMAIN san)
        => /\ san.ok
           /\ C29_OnPathOnly(san.heap, Ref(1), {}, san.output)


\* Notions used in the statement of C30 below.
\* The entries handed over in a step: rows of new logSync calls and the item
\* enqueue appended, as rows.
C30_Dispatched ==
    {w.row : w \in pendingSync' \ pendingSync}
    \cup (IF Len(queue') > Len(queue)
          THEN {ToRow(queue'[Len(queue')].logData)} ELSE {})

\* The request body as the middleware puts it in the entry, and as a row
\* holds it.
C30_Payload(r) ==
    IF Len(req'[r].body.v) > 0 THEN req'[r].body ELSE Null

C30_Step ==
    \A r \in ReqIds :
        audit'[r] # audit[r]
            => /\ req'[r].pc \in {"sent", "done"}
               /\ \E row \in C30_Dispatched :
                     /\ row.rid = r /\ row.src = "mw"
                     /\ row.user_id = req'[r].actor
                     /\ row.response_status = req'[r].status
                     /\ \/ row.request_payload = C30_Payload(r)
                        \/ /\ Truthy(C30_Payload(r))
                           /\ row.request_payload =
                                 sanitizePayload(C30_Payload(r))
               /\ Cardinality({row \in C30_Dispatched :
                                  row.rid = r /\ row.src = "mw"}) = 1

\* C30: whether or not sanitizeLogData fails inside, the step in which the
\* middleware hands over a request's entry ends with the request answered
\* and exactly one entry for it given to the writer or appended to the
\* queue, carrying the request's payload either sanitized or, after a
\* failure, exactly as it came.
C30_SanitizerFailureReturnsOriginal == [][C30_Step]_vars

\* An entry is in the queue with its payload as the request sent it,
\* secrets included: sanitizeLogData failed and logAsync went on.
C30_Witness ==
    \E i \in 1..Len(queue) :
        /\ queue[i].logData.request_payload = BodySecrets
        /\ req[queue[i].logData.rid].pc \in {"sent", "done"}


-----------------------------------------------------------------------------
\* Notions used in the statement of C31 below.
C31_OneRunPerMidnight ==
    /\ sched.runs <= now
    /\ now >= 1 => sched.runs >= now - 1
    /\ sched.pc = "run" => sched.runs = now /\ sched.lastRun = now
    /\ sched.pc # "stopped"

C31_FailureLoggedAndRearmed ==
    (sched.pc = "run" /\ sched'.pc # "run" /\ cleanup.pc = "failed")
        => /\ sched'.errors = sched.errors + 1
           /\ sched'.pc = "armed"
           /\ sched'.due = now + 1
           /\ sched'.runs = sched.runs

C31_RunAgainNextDay ==
    \A d \in 1..(MaxDays - 1) :
        (sched.failedOn = d /\ sched.lastRun = d) ~> (sched.lastRun = d + 1)

\* C31: a failed retention run is logged once, is not retried before the next
\* midnight, and leaves the job armed: deleteOldLogs is called exactly once per
\* midnight, and after a run that failed on day d (the first one included) a
\* run starts on day d + 1.
C31_FailedRunKeepsSchedule ==
    /\ []C31_OneRunPerMidnight
    /\ [][C31_FailureLoggedAndRearmed]_vars
    /\ C31_RunAgainNextDay

C31_Witness ==
    /\ sched.failedOn = 1
    /\ sched.errors = 1
    /\ sched.lastRun = 2
    /\ sched.runs = 2

-----------------------------------------------------------------------------
\* Notions used in the statement of C32 below.
C32_TimesQueued(n) ==
    Cardinality({i \in 1..Len(queue) : queue[i].logData.rid = n})

C32_TimesPersisted(n) ==
    Cardinality({i \in 1..Len(logs) : logs[i].rid = n})

C32_Dropped(n) == \E row \in lost : row.rid = n

C32_OnePlace ==
    \A n \in 1..Len(attempts) :
        /\ C32_TimesQueued(n) + C32_TimesPersisted(n)
             + (IF C32_Dropped(n) THEN 1 ELSE 0) = 1
        /\ C32_Dropped(n) => attempts[n] = MAX_RETRIES
        /\ \A i \in 1..Len(queue) :
              queue[i].logData.rid = n => queue[i].retryCount = attempts[n]

C32_WriteSettled ==
    Len(attempts') = Len(attempts) /\ attempts' # attempts

C32_Step ==
    C32_WriteSettled =>
        /\ queue # <<>> /\ batch # <<>>
        /\ Head(queue) = Head(batch)
        /\ attempts' = [attempts EXCEPT ![Head(queue).logData.rid] = @ + 1]
        /\ \/ queue' = Tail(queue)
           \/ queue' = Append(Tail(queue),
                          [Head(queue) EXCEPT !.retryCount = @ + 1])

\* C32: with arrivals, timer ticks, flush calls, drains that end through the
\* catch block and writes that succeed or fail in any order, every enqueued
\* entry is at all times either once in the queue, once in the table, or
\* given up; it is given up only with its MAX_RETRIES-th failed attempt, and
\* the item a settled write takes off the head of the queue is the item that
\* write was for.
C32_EachEntryInOnePlace == []C32_OnePlace /\ [][C32_Step]_vars

C32_Witness ==
    /\ flush.pc = "returned"
    /\ \E n \in 1..Len(attempts) : C32_Dropped(n)
    /\ \E n \in 1..Len(attempts) :
          C32_TimesPersisted(n) = 1 /\ attempts[n] = MAX_RETRIES

\* Notions used in the statement of C33 below.
C33_PersistedInArrivalOrder ==
    \A i \in 1..Len(logs) : logs[i].rid = i

C33_Step ==
    logs' # logs =>
        /\ Len(logs') = Len(logs) + 1
        /\ logs'[Len(logs')].rid = Len(logs) + 1
        /\ attempts[Len(logs) + 1] = 0

\* C33: with a writer that never fails, the table holds the entries in the
\* order of their enqueue calls: each write that settles persists the oldest
\* entry not yet persisted, at its first attempt, over successive drains and
\* with arrivals while a drain is suspended on a write.
C33_FifoWhenNoWriteFails ==
    []C33_PersistedInArrivalOrder /\ [][C33_Step]_vars

C33_Witness ==
    /\ Len(logs) > 2 * BATCH_SIZE
    /\ isProcessing
    /\ Len(queue) > Len(batch)
    /\ Len(attempts) = BurstSize

\* Notions used in the statement of C34 below.
C34_DrainExecuting == batch # <<>>

C34_DrainEnds == C34_DrainExecuting /\ batch' = <<>>

\* C34: the processing flag is set exactly while a drain is executing: every
\* drain, one that ends through the catch block included, leaves the flag
\* false, and a non-empty queue with no drain executing can always be
\* drained by the next tick.
C34_FlagResetWhenDrainEnds ==
    /\ [](isProcessing <=> C34_DrainExecuting)
    /\ [][C34_DrainEnds => ~isProcessing']_vars
    /\ []((queue # <<>> /\ ~C34_DrainExecuting /\ flush.pc # "drain")
            => ENABLED Tick)

\* The drain flush started has ended with the flag false and without a
\* single write attempt on the entry that headed its batch.
C34_Witness ==
    /\ flush.pc = "drain"
    /\ ~isProcessing
    /\ Len(attempts) >= 2
    /\ attempts[1] = 0
    /\ Len(queue) >= 2

-----------------------------------------------------------------------------
\* Notions used in the statement of C35 below.
C35_Revoked(u, m) ==
    \E c \in CallIds :
        /\ calls[c].op = "revoke" /\ calls[c].pc = "done"
        /\ calls[c].userId = u /\ calls[c].module = m
        /\ \A g \in CallIds :
              (/\ calls[g].op = "grant"
               /\ calls[g].userId = u /\ calls[g].module = m)
                 => \/ calls[g].pc \in {"read", "write"}
                    \/ g \in calls[c].startedAfter

C35_GateDecides(r) == req[r].pc = "gate" /\ req'[r].pc # "gate"

C35_Step ==
    \A r \in ReqIds :
        (/\ C35_GateDecides(r)
         /\ C35_Revoked(req[r].actor, GateModule(Endpoint(req[r].ep).mount)))
            => /\ req'[r].status = 403
               /\ ~req'[r].handled
               /\ req'[r].pc = "sent"

\* C35: once a revoke of (actor, module) has returned, and until a grant
\* writes the pair again, every decision of the module's gate for that actor
\* is a 403 and the handler is not called, whichever level the gate requires
\* and also for a request whose token was verified before the revoke: the
\* gate reads the store at each decision.
C35_RevokeDeniesNextCheck == [][C35_Step]_vars

\* User 2 held finance:write and passed the finance gate; the revoke then
\* returned, and the second request with the same token was answered 403.
C35_Witness ==
    /\ req[1].actor = 2 /\ req[1].handled
    /\ calls[1].op = "revoke" /\ calls[1].pc = "done" /\ calls[1].userId = 2
    /\ calls[2].pc = "idle"
    /\ req[2].actor = 2 /\ req[2].level = "read"
    /\ req[2].status = 403 /\ req[2].lookup = "false"

-----------------------------------------------------------------------------
\* Notions used in the statement of C36 below.
C36_Upserts(c) ==
    calls[c].op = "grant" /\ calls[c].pc = "write" /\ calls'[c].pc = "reread"

C36_BuildsEntry(c) ==
    calls[c].op = "grant" /\ calls[c].pc = "reread" /\ calls'[c].pc = "awaitLog"

C36_Step ==
    \A c \in CallIds :
        /\ C36_Upserts(c) =>
              calls[c].before =
                  SelectPermission(perms, calls[c].userId, calls[c].module)
        /\ C36_BuildsEntry(c) =>
              PermissionEntry(c, calls'[c]).after_state =
                  PermissionState(calls[c].userId,
                      [access_level |-> calls[c].accessLevel])

\* C36: for every grant call, the before state of its audit entry is the row
\* of (user, module) as its own upsert found it, and the after state is the
\* row as its own upsert left it, also when statements of another grant or
\* revoke of the pair run between the call's read, upsert and re-read.
C36_AuditStatesAroundOwnUpsert == [][C36_Step]_vars

-----------------------------------------------------------------------------
\* C37: every entry the middleware has built and handed to the queue carries
\* an action_type of the table's vocabulary, whatever the method and path of
\* its request.
C37_ActionTypeInVocabulary ==
    \A i \in 1..Len(queue) :
        queue[i].logData.src = "mw" =>
            queue[i].logData.action_type \in ActionTypes

-----------------------------------------------------------------------------
\* Notions used in the statement of C38 below.
C38_Entries(r) ==
    Cardinality({w \in pendingSync : w.row.rid = r /\ w.row.src = "mw"})
      + Cardinality({i \in 1..Len(queue) :
                        queue[i].logData.rid = r /\ queue[i].logData.src = "mw"})
      + Cardinality({i \in 1..Len(logs) : logs[i].rid = r /\ logs[i].src = "mw"})
      + Cardinality({row \in lost : row.rid = r /\ row.src = "mw"})

C38_Step ==
    \A r \in ReqIds :
        LET before == C38_Entries(r)
            after  == C38_Entries(r)'
        IN  /\ after > before =>
                  /\ after = before + 1
                  /\ ~req[r].logged /\ req'[r].logged
            /\ req[r].logged => req'[r].logged

\* C38: the middleware builds at most one entry per request: the call of
\* the hook that finds the flag unset sets it and dispatches the entry, and
\* the calls from the wrapped res.send and from the finish event that follow
\* add nothing.
C38_OneEntryPerRequest ==
    /\ [](\A r \in ReqIds : C38_Entries(r) <= 1)
    /\ [][C38_Step]_vars

\* Two requests, one critical and one routine, have been answered through
\* res.json and have had their finish events, with one entry each.
C38_Witness ==
    /\ \A r \in ReqIds :
          req[r].pc = "done" /\ req[r].logged /\ C38_Entries(r) = 1
    /\ audit[1] = {"sync"}
    /\ audit[2] = {"async"}

-----------------------------------------------------------------------------
\* Notions used in the statement of C40 below.
C40_LookupFailed(r) == req[r].lookup = "failed"

C40_Step ==
    \A r \in ReqIds :
        (req[r].pc = "gate" /\ C40_LookupFailed(r)') =>
            /\ req'[r].pc = "sent"
            /\ req'[r].status = 403
            /\ req'[r].error.statusCode = 403
            /\ ~req'[r].handled

\* C40: when the SELECT of the permission lookup is rejected, the evaluator
\* answers false and the gate answers 403 with its error object; the
\* request never reaches its handler, whatever row the actor holds.
C40_FailedLookupDenies ==
    /\ [](\A r \in ReqIds :
            C40_LookupFailed(r) =>
                /\ ~req[r].handled
                /\ req[r].pc \in {"sent", "done"}
                /\ req[r].status = 403)
    /\ [][C40_Step]_vars

\* The holder of finance:write was denied on the finance gate built with
\* 'read' because the lookup failed, and the response has finished.
C40_Witness ==
    \E r \in ReqIds :
        /\ C40_LookupFailed(r)
        /\ req[r].pc = "done"
        /\ req[r].actor = 2 /\ req[r].ep = "view" /\ req[r].level = "read"
        /\ hasModuleAccess(perms, 2, "finance", "read", FALSE)

-----------------------------------------------------------------------------
\* Notions used in the statement of C39 below.
RECURSIVE C39_Kept(_, _)
C39_Kept(in, out) ==
    IF in.t = "arr"
    THEN /\ out.t = "arr"
         /\ Len(out.v) = Len(in.v)
         /\ \A i \in 1..Len(in.v) : C39_Kept(in.v[i], out.v[i])
    ELSE IF in.t = "obj"
    THEN /\ out.t = "obj"
         /\ Len(out.v) = Len(in.v)
         /\ \A i \in 1..Len(in.v) :
                /\ out.v[i][1] = in.v[i][1]
                /\ ~C11_Matches(in.v[i][1])
                      => C39_Kept(in.v[i][2], out.v[i][2])
    ELSE out = in

\* C39: sanitizePayload returns its input with nothing changed but the
\* values under keys whose normalised form contains a word of the sensitive
\* vocabulary: every other map entry keeps its key and its scalar value or,
\* if nested, its sanitized value; arrays keep length and order; scalars
\* are returned as they are.
C39_OnlySensitiveKeysChange ==
    san.called => C39_Kept(san.input, san.output)
====
